---- MODULE Spec2Model ----
(***************************************************************************)
(* AgentVerse: the retrieval-and-response pipeline of                      *)
(* src/src/agent_response.py (chat_with_agent and its helpers), the        *)
(* index cache of src/src/embedding_index.py (build_or_load_index), the    *)
(* ingestion functions of src/src/data_loader.py and dataprocess.py, and   *)
(* the session chat history of app.py.                                     *)
(*                                                                         *)
(* Text is a sequence of one-character strings, so that Python's substring *)
(* tests, str.split, str.strip and the regular expressions of the source   *)
(* are computed character by character.  The one-element string "EMDASH"   *)
(* stands for the single character U+2014 of the source's templates.       *)
(***************************************************************************)
EXTENDS Integers, Sequences, FiniteSets, TLC

(***************************************************************************)
(* Python string primitives                                                *)
(***************************************************************************)

\* str.isspace for one character: the ASCII whitespace of str.strip / \s
IsSpace(c) == c \in {" ", "\t", "\n", "\r", "\f"}

LowerChar(c) ==
    CASE c = "A" -> "a" [] c = "B" -> "b" [] c = "C" -> "c" [] c = "D" -> "d"
      [] c = "E" -> "e" [] c = "F" -> "f" [] c = "G" -> "g" [] c = "H" -> "h"
      [] c = "I" -> "i" [] c = "J" -> "j" [] c = "K" -> "k" [] c = "L" -> "l"
      [] c = "M" -> "m" [] c = "N" -> "n" [] c = "O" -> "o" [] c = "P" -> "p"
      [] c = "Q" -> "q" [] c = "R" -> "r" [] c = "S" -> "s" [] c = "T" -> "t"
      [] c = "U" -> "u" [] c = "V" -> "v" [] c = "W" -> "w" [] c = "X" -> "x"
      [] c = "Y" -> "y" [] c = "Z" -> "z" [] OTHER -> c

\* the sequence f as an explicit tuple of its elements
AsTuple(f) == SubSeq(f, 1, Len(f))

\* str.lower
Lower(s) == AsTuple([i \in 1..Len(s) |-> LowerChar(s[i])])

\* the positions 1..n, in order
Positions(n) == [i \in 1..n |-> i]

\* str.strip: the characters from the first to the last non-whitespace one
Strip(s) ==
    LET nonspace == {i \in 1..Len(s) : ~IsSpace(s[i])}
        Keep(i) == (\E j \in nonspace : j <= i) /\ (\E j \in nonspace : j >= i)
        sel == SelectSeq(Positions(Len(s)), Keep)
    IN  AsTuple([k \in 1..Len(sel) |-> s[sel[k]]])

\* t in s
Contains(s, t) ==
    \/ t = <<>>
    \/ \E i \in 1..(Len(s) - Len(t) + 1) :
           s[i] = t[1] /\ SubSeq(s, i, i + Len(t) - 1) = t

\* s.startswith(t), and a regular expression "^t"
StartsWith(s, t) == Len(t) <= Len(s) /\ SubSeq(s, 1, Len(t)) = t

\* a regular expression "t$" on text with no trailing newline
EndsWith(s, t) ==
    Len(t) <= Len(s) /\ SubSeq(s, Len(s) - Len(t) + 1, Len(s)) = t

\* the positions where a maximal run of non-whitespace characters starts
TokenStarts(s) ==
    {i \in 1..Len(s) : ~IsSpace(s[i]) /\ (i = 1 \/ IsSpace(s[i - 1]))}

\* the last position of the run that starts at position a
TokenEnd(s, a) ==
    CHOOSE j \in a..Len(s) :
        /\ \A k \in a..j : ~IsSpace(s[k])
        /\ (j = Len(s) \/ IsSpace(s[j + 1]))

\* str.split(): the maximal runs of non-whitespace characters, in order
Split(s) ==
    LET starts == TokenStarts(s)
        nth(k) == CHOOSE a \in starts : Cardinality({b \in starts : b < a}) = k - 1
    IN  [k \in 1..Cardinality(starts) |-> SubSeq(s, nth(k), TokenEnd(s, nth(k)))]

\* len(query.split())
TokenCount(s) == Len(Split(s))

\* the fragments of fs, joined
RECURSIVE Join(_)
Join(fs) == IF fs = <<>> THEN <<>> ELSE Head(fs) \o Join(Tail(fs))

\* "\n".join(parts)
JoinLines(parts) ==
    Join([k \in 1..(2 * Len(parts) - 1) |->
             IF k % 2 = 1 THEN parts[(k + 1) \div 2] ELSE <<"\n">>])

(***************************************************************************)
(* Text constants of agent_response.py                                     *)
(***************************************************************************)

\* AGENT_NAME = os.getenv("AGENT_NAME", "Agenverse")
AGENT_NAME ==
    <<"A","g","e","n","v","e","r","s","e">>

\* triggers of _is_name_query
NameTriggers ==
    { <<"y","o","u","r"," ","n","a","m","e">>,
      <<"w","h","o"," ","a","r","e"," ","y","o","u">>,
      <<"w","h","a","t"," ","a","r","e"," ","y","o","u">>,
      <<"w","h","a","t","'","s"," ","y","o","u","r"," ","n","a","m","e">>,
      <<"w","h","o"," ","i","s"," ","t","h","i","s">>,
      <<"w","h","o"," ","a","m"," ","i"," ","c","h","a","t","t","i","n","g"," ","w","i","t","h">>,
      <<"a","g","e","n","t"," ","n","a","m","e">> }

\* PERSONAL_EMOTION_WORDS
PERSONAL_EMOTION_WORDS ==
    { <<"s","a","d">>,
      <<"u","p","s","e","t">>,
      <<"d","o","w","n">>,
      <<"d","e","p","r","e","s","s","e","d">>,
      <<"h","a","p","p","y">>,
      <<"a","n","g","r","y">>,
      <<"a","n","x","i","o","u","s">>,
      <<"s","t","r","e","s","s","e","d">>,
      <<"t","i","r","e","d">>,
      <<"l","o","n","e","l","y">>,
      <<"e","x","c","i","t","e","d">>,
      <<"f","r","u","s","t","r","a","t","e","d">>,
      <<"w","o","r","r","i","e","d">>,
      <<"c","o","n","f","u","s","e","d">> }

\* the first-person markers of _is_personal
PersonalPronouns ==
    { <<"i"," ","a","m"," ">>,
      <<"i","'","m"," ">>,
      <<"i"," ","f","e","e","l">>,
      <<"f","e","e","l","i","n","g"," ">> }

\* the prefix of f"i am {w}" in _is_personal
IAmPrefix ==
    <<"i"," ","a","m"," ">>

\* OUT_OF_SCOPE_KEYWORDS
OUT_OF_SCOPE_KEYWORDS ==
    { <<"w","e","a","t","h","e","r">>,
      <<"m","o","v","i","e">>,
      <<"m","u","s","i","c">>,
      <<"r","e","c","i","p","e">>,
      <<"g","a","m","e">>,
      <<"r","e","s","t","a","u","r","a","n","t">>,
      <<"t","r","a","v","e","l"," ","p","l","a","n">> }

\* GENERAL_RESPONSE_TEMPLATES, with AGENT_NAME substituted
GENERAL_RESPONSE_TEMPLATES ==
    <<
      <<"H","i"," ","t","h","e","r","e","!"," ","I","'","m"," ","A","g","e","n","v","e","r","s","e",
        "."," ","H","o","w"," ","c","a","n"," ","I"," ","h","e","l","p"," ","w","i","t","h"," ","a",
        "n"," ","u","n","d","e","r","w","r","i","t","i","n","g"," ","o","r"," ","c","o","v","e","r",
        "a","g","e"," ","q","u","e","s","t","i","o","n"," ","t","o","d","a","y","?">>,
      <<"H","e","l","l","o","!"," ","I","'","m"," ","A","g","e","n","v","e","r","s","e",","," ","h",
        "e","r","e"," ","t","o"," ","h","e","l","p","."," ","L","e","t"," ","m","e"," ","k","n","o",
        "w"," ","a","n","y"," ","r","i","s","k"," ","d","e","t","a","i","l","s"," ","o","r"," ","p",
        "o","l","i","c","y"," ","p","o","i","n","t","s"," ","y","o","u","'","r","e"," ","e","x","p",
        "l","o","r","i","n","g",".">>,
      <<"I","'","m"," ","A","g","e","n","v","e","r","s","e","."," ","I"," ","c","a","n"," ","a","s",
        "s","i","s","t"," ","w","i","t","h"," ","u","n","d","e","r","w","r","i","t","i","n","g"," ",
        "d","e","c","i","s","i","o","n","s",","," ","c","o","v","e","r","a","g","e"," ","c","l","a",
        "r","i","f","i","c","a","t","i","o","n","s",","," ","o","r"," ","p","o","l","i","c","y"," ",
        "w","o","r","d","i","n","g"," ","q","u","e","s","t","i","o","n","s","EMDASH","w","h","a",
        "t"," ","w","o","u","l","d"," ","y","o","u"," ","l","i","k","e"," ","t","o"," ","d","i","v",
        "e"," ","i","n","t","o","?">>,
      <<"T","h","a","n","k","s"," ","f","o","r"," ","r","e","a","c","h","i","n","g"," ","o","u","t",
        "EMDASH","A","g","e","n","v","e","r","s","e"," ","a","t"," ","y","o","u","r"," ","s","e",
        "r","v","i","c","e","."," ","S","h","a","r","e"," ","t","h","e"," ","b","u","s","i","n","e",
        "s","s"," ","t","y","p","e",","," ","k","e","y"," ","e","x","p","o","s","u","r","e","s",",",
        " ","o","r"," ","y","o","u","r"," ","s","p","e","c","i","f","i","c"," ","q","u","e","s","t",
        "i","o","n"," ","a","n","d"," ","I","'","l","l"," ","h","e","l","p",".">>
    >>

\* the self-identification reply of _general_response
NameReply ==
    <<"A","n","s","w","e","r",":"," ","I","'","m"," ","A","g","e","n","v","e","r","s","e",","," ",
      "y","o","u","r"," ","c","o","m","m","e","r","c","i","a","l"," ","S","M","E"," ","u","n","d",
      "e","r","w","r","i","t","i","n","g"," ","a","s","s","i","s","t","a","n","t",".","\n","D",
      "e","c","i","s","i","o","n",":"," ","N","e","e","d"," ","C","l","a","r","i","f","i","c","a",
      "t","i","o","n","\n","E","x","p","l","a","n","a","t","i","o","n",":"," ","S","h","a","r",
      "e"," ","t","h","e"," ","r","i","s","k"," ","t","y","p","e",","," ","k","e","y"," ","e","x",
      "p","o","s","u","r","e","s",","," ","o","r"," ","c","o","v","e","r","a","g","e"," ","q","u",
      "e","s","t","i","o","n"," ","s","o"," ","I"," ","c","a","n"," ","h","e","l","p"," ","f","u",
      "r","t","h","e","r",".">>

\* the empathetic reply of _general_response for at most 6 tokens
EmpatheticShort ==
    <<"I","'","m"," ","h","e","r","e"," ","t","o"," ","h","e","l","p","."," ","I","f"," ","y","o",
      "u"," ","h","a","v","e"," ","a","n","y"," ","u","n","d","e","r","w","r","i","t","i","n","g",
      " ","o","r"," ","c","o","v","e","r","a","g","e"," ","q","u","e","s","t","i","o","n","s",",",
      " ","f","e","e","l"," ","f","r","e","e"," ","t","o"," ","s","h","a","r","e"," ","t","h","e",
      "m"," ","w","h","e","n"," ","y","o","u","'","r","e"," ","r","e","a","d","y",".">>

\* the empathetic reply of _general_response for more than 6 tokens
EmpatheticLong ==
    <<"I"," ","h","e","a","r"," ","y","o","u","."," ","L","e","t"," ","m","e"," ","k","n","o","w",
      " ","a","n","y"," ","i","n","s","u","r","a","n","c","e"," ","o","r"," ","c","o","v","e","r",
      "a","g","e"," ","c","o","n","c","e","r","n","s"," ","a","n","d"," ","I","'","l","l"," ","s",
      "u","p","p","o","r","t"," ","y","o","u","EMDASH","n","o"," ","r","u","s","h",".">>

\* the out-of-scope sentence _general_response appends to the template
OutOfScopeSuffix ==
    <<" ","I","t"," ","s","e","e","m","s"," ","y","o","u","r"," ","l","a","s","t"," ","q","u","e",
      "s","t","i","o","n"," ","i","s","n","'","t"," ","u","n","d","e","r","w","r","i","t","i","n",
      "g"," ","r","e","l","a","t","e","d",","," ","b","u","t"," ","f","e","e","l"," ","f","r","e",
      "e"," ","t","o"," ","a","s","k"," ","a","n","y","t","h","i","n","g"," ","a","b","o","u","t",
      " ","c","o","v","e","r","a","g","e",","," ","a","p","p","e","t","i","t","e",","," ","p","r",
      "i","c","i","n","g"," ","o","r"," ","b","r","o","k","e","r"," ","i","n","t","e","r","a","c",
      "t","i","o","n","s",".">>

\* the block chat_with_agent appends when the response has no Decision:
DefaultDecisionBlock ==
    <<"\n","D","e","c","i","s","i","o","n",":"," ","N","e","e","d"," ","C","l","a","r","i","f",
      "i","c","a","t","i","o","n","\n","E","x","p","l","a","n","a","t","i","o","n",":"," ","I",
      " ","d","i","d","n","'","t"," ","r","e","c","e","i","v","e"," ","e","n","o","u","g","h"," ",
      "s","t","r","u","c","t","u","r","e","d"," ","i","n","f","o",";"," ","p","l","e","a","s","e",
      " ","p","r","o","v","i","d","e"," ","k","e","y"," ","r","i","s","k"," ","d","e","t","a","i",
      "l","s"," ","(","t","r","a","d","e",","," ","s","u","m","s"," ","i","n","s","u","r","e","d",
      ","," ","c","l","a","i","m","s"," ","h","i","s","t","o","r","y",")",".">>

\* the note f" (Encountered an error reaching model: {e})", before e
ErrorNoteOpen ==
    <<" ","(","E","n","c","o","u","n","t","e","r","e","d"," ","a","n"," ","e","r","r","o","r"," ",
      "r","e","a","c","h","i","n","g"," ","m","o","d","e","l",":"," ">>

\* and after e
ErrorNoteClose ==
    <<")">>

\* the section labels of the response format
AnswerLabel ==
    <<"A","n","s","w","e","r",":">>

DecisionLabel ==
    <<"D","e","c","i","s","i","o","n",":">>

ExplanationLabel ==
    <<"E","x","p","l","a","n","a","t","i","o","n",":">>


(***************************************************************************)
(* Query classifiers of agent_response.py                                  *)
(***************************************************************************)

\* _is_name_query(query)
_is_name_query(qry) ==
    LET q == Strip(Lower(qry))
    IN  \E t \in NameTriggers : Contains(q, t)

\* _is_personal(query)
_is_personal(qry) ==
    LET q == Strip(Lower(qry))
    IN  \/ /\ \E pron \in PersonalPronouns : Contains(q, pron)
           /\ \E w \in PERSONAL_EMOTION_WORDS : Contains(q, w)
        \/ \E w \in PERSONAL_EMOTION_WORDS : q = IAmPrefix \o w

\* re.search(pat, q) for some pat of SMALL_TALK_PATTERNS, pattern by pattern
MatchesSmallTalkPattern(q) ==
    \/ q = <<"h","i">>                                           \* ^hi$
    \/ StartsWith(q, <<"h","i"," ","t","h","e","r","e">>)        \* ^hi there
    \/ StartsWith(q, <<"h","e","l","l","o">>)                    \* ^hello
    \/ Contains(q, <<"h","e","y">>)                              \* hey
    \/ Contains(q, <<"h","o","w"," ","a","r","e"," ","y","o","u">>)  \* how are you
    \/ Contains(q, <<"t","h","a","n","k","s">>)                  \* thank(s| you)
    \/ Contains(q, <<"t","h","a","n","k"," ","y","o","u">>)
    \/ Contains(q, <<"g","o","o","d"," ","m","o","r","n","i","n","g">>)  \* good (morning|afternoon|evening)
    \/ Contains(q, <<"g","o","o","d"," ","a","f","t","e","r","n","o","o","n">>)
    \/ Contains(q, <<"g","o","o","d"," ","e","v","e","n","i","n","g">>)
    \/ Contains(q, <<"w","h","a","t","'","s"," ","u","p">>)      \* what's up
    \/ Contains(q, <<"h","o","w","'","s"," ","i","t"," ","g","o","i","n","g">>)  \* how's it going
    \/ Contains(q, <<"w","h","o"," ","a","r","e"," ","y","o","u">>)  \* who are you
    \/ EndsWith(q, <<"h","e","l","p">>)                          \* help$
    \/ q = <<"y","o">>                                           \* ^yo$

\* _is_small_talk(query)
_is_small_talk(qry) ==
    LET q == Strip(Lower(qry))
        words == Split(q)
    IN  \/ MatchesSmallTalkPattern(q)
        \/ /\ Len(words) <= 3
           /\ \A i \in 1..Len(words) : Len(words[i]) <= 7

\* _is_out_of_scope(query): lower-cased, not stripped
_is_out_of_scope(qry) ==
    LET q == Lower(qry)
    IN  \E k \in OUT_OF_SCOPE_KEYWORDS : Contains(q, k)

(***************************************************************************)
(* Templated replies and post-processing of agent_response.py              *)
(***************************************************************************)

\* _general_response with the small-talk test moved ahead of the personal test:
\* a faulty variant, which the empathetic-reply property must tell apart
GeneralResponseSmallTalkFirst(qry, base) ==
    IF _is_name_query(qry) THEN NameReply
    ELSE IF _is_small_talk(qry) THEN base
    ELSE IF _is_personal(qry)
         THEN (IF TokenCount(qry) <= 6 THEN EmpatheticShort ELSE EmpatheticLong)
    ELSE IF _is_out_of_scope(qry) THEN base \o OutOfScopeSuffix
    ELSE base

\* _general_response(query, history); base is the template random.choice drew
_general_response(qry, base) ==
    IF _is_name_query(qry) THEN NameReply
    ELSE IF _is_personal(qry)
         THEN (IF TokenCount(qry) <= 6 THEN EmpatheticShort ELSE EmpatheticLong)
    ELSE IF _is_small_talk(qry) THEN base
    ELSE IF _is_out_of_scope(qry) THEN base \o OutOfScopeSuffix
    ELSE base

\* whether label occurs in text at position i
LabelAt(text, i, label) ==
    /\ i + Len(label) - 1 <= Len(text)
    /\ text[i] = label[1]
    /\ SubSeq(text, i, i + Len(label) - 1) = label

\* a substitution that puts the newline before the label and keeps the whitespace
\* before it: a faulty variant, which the idempotence property must tell apart
InsertNewlineBefore(text, label) ==
    LET Keep(n) == n % 2 = 0 \/ LabelAt(text, (n + 1) \div 2, label)
        sel == SelectSeq(Positions(2 * Len(text)), Keep)
    IN  AsTuple([k \in 1..Len(sel) |->
                    IF sel[k] % 2 = 1 THEN "\n" ELSE text[sel[k] \div 2]])

\* re.sub(rf"\s*{label}", f"\n{label}", text).  The matches are the occurrences of
\* the label, each with the whitespace run before it (a run cannot reach into the
\* match before, which ends in ":"); a match becomes a newline and the label.
\* Slot 2i-1 is the newline put before position i, slot 2i the character at i.
ForceNewlineBefore(text, label) ==
    LET occ == {i \in 1..Len(text) : LabelAt(text, i, label)}
        Dropped(i) ==
            /\ IsSpace(text[i])
            /\ \E o \in occ : o > i /\ \A k \in i..(o - 1) : IsSpace(text[k])
        Keep(n) == IF n % 2 = 1 THEN ((n + 1) \div 2) \in occ
                                ELSE ~Dropped(n \div 2)
        sel == SelectSeq(Positions(2 * Len(text)), Keep)
    IN  AsTuple([k \in 1..Len(sel) |->
                    IF sel[k] % 2 = 1 THEN "\n" ELSE text[sel[k] \div 2]])

\* the labels of the response format
SectionLabels == {AnswerLabel, DecisionLabel, ExplanationLabel}

\* re.sub(r"(Answer:|Decision:|Explanation:)\s+", r"\1 ", text).  The matches are
\* the occurrences of a label followed by whitespace, each with the whole
\* whitespace run after it; the run becomes one space.
CollapseAfterLabels(text) ==
    LET ends == {j \in 2..Len(text) :
                    \E l \in SectionLabels :
                        j - Len(l) >= 1 /\ LabelAt(text, j - Len(l), l)}
        InRun(j) ==
            /\ IsSpace(text[j])
            /\ \E e \in ends : e <= j /\ \A k \in e..j : IsSpace(text[k])
        Keep(j) == InRun(j) => j \in ends
        sel == SelectSeq(Positions(Len(text)), Keep)
    IN  AsTuple([k \in 1..Len(sel) |-> IF InRun(sel[k]) THEN " " ELSE text[sel[k]]])

\* _normalize_section_formatting(text)
_normalize_section_formatting(text) ==
    Strip(CollapseAfterLabels(
        ForceNewlineBefore(ForceNewlineBefore(text, DecisionLabel), ExplanationLabel)))

\* the patch test without its query conditions: a faulty variant, which the
\* default-block property must tell apart
NeedsDefaultBlockResponseOnly(qry, resp) == ~Contains(resp, DecisionLabel)

\* the patch test of chat_with_agent: the response has no Decision: and the query
\* is not small talk, out of scope or personal
NeedsDefaultBlock(qry, resp) ==
    /\ ~Contains(resp, DecisionLabel)
    /\ ~_is_small_talk(qry)
    /\ ~_is_out_of_scope(qry)
    /\ ~_is_personal(qry)

\* the post-processing of chat_with_agent: patch, then normalize
PostProcess(qry, resp) ==
    _normalize_section_formatting(
        IF NeedsDefaultBlock(qry, resp)
        THEN resp \o DefaultDecisionBlock
        ELSE resp)

(***************************************************************************)
(* _build_history_block of agent_response.py                               *)
(***************************************************************************)

\* the speaker labels app.py stores: ("\U0001F464 You", ...) for the user and
\* ("\u26A1\uFE0F Agenverse", ...) for the assistant; a non-ASCII character is
\* written as one element naming its code point
AppUserLabel == <<"U+1F464"," ","Y","o","u">>
AppAgentLabel == <<"U+26A1","U+FE0F"," ">> \o AGENT_NAME

\* role of _build_history_block: the speaker label, normalized
Role(speaker) ==
    IF Contains(speaker, <<"B","r","o","k","e","r">>) \/ StartsWith(speaker, <<"U+1F9D1">>)
    THEN <<"B","r","o","k","e","r">>
    ELSE IF Contains(speaker, <<"A","g","e","n","t">>)
    THEN <<"A","g","e","n","t">>
    ELSE speaker

\* trimmed = history[-(MAX_HISTORY_TURNS*2):] for MAX_HISTORY_TURNS = n: a slice
\* from -0 starts at index 0
Trimmed(hist, n) ==
    LET start == IF 2 * n = 0 THEN 0
                 ELSE IF Len(hist) - 2 * n < 0 THEN 0 ELSE Len(hist) - 2 * n
    IN  SubSeq(hist, start + 1, Len(hist))

\* _build_history_block(history) for MAX_HISTORY_TURNS = n
_build_history_block(hist, n) ==
    IF hist = <<>>
    THEN <<"(","n","o"," ","p","r","i","o","r"," ","c","o","n","v","e","r","s","a","t","i","o","n",")">>
    ELSE LET trimmed == Trimmed(hist, n)
             \* trimmed[::-1]
             rev == [k \in 1..Len(trimmed) |-> trimmed[Len(trimmed) - k + 1]]
         IN  JoinLines([k \in 1..Len(rev) |->
                           Role(rev[k][1]) \o <<":", " ">> \o rev[k][2]])

\* the history a session passes on its k-th chat_with_agent call: none before its
\* first reply, then its two entries of app.py
HistoryOfCall(k) ==
    IF k <= 1 THEN <<>>
    ELSE <<<<AppUserLabel, <<"h", "i">>>>, <<AppAgentLabel, <<"R", "e", "f", "e", "r">>>>>>

\* the caller's list, had _build_history_block reversed it in place: a faulty
\* variant, which the property of the unchanged history must tell apart
HistoryReversedInPlace(hist, n) == [k \in 1..Len(hist) |-> hist[Len(hist) - k + 1]]

\* the caller's list after _build_history_block(history): history[-(2n):] and
\* trimmed[::-1] are new lists, and nothing is assigned into history
HistoryAfterBlock(hist, n) == hist

(***************************************************************************)
(* The inputs the model draws from                                         *)
(***************************************************************************)

\* 'who are you'
QWhoAreYou ==
    <<"w","h","o"," ","a","r","e"," ","y","o","u">>

\* 'what is your name'
QYourName ==
    <<"w","h","a","t"," ","i","s"," ","y","o","u","r"," ","n","a","m","e">>

\* "I'm sad"
QSad ==
    <<"I","'","m"," ","s","a","d">>

\* ' Hi '
QHi ==
    <<" ","H","i"," ">>

\* 'what is the weather in Paris tomorrow'
QWeather ==
    <<"w","h","a","t"," ","i","s"," ","t","h","e"," ","w","e","a","t","h","e","r"," ","i","n"," ",
      "P","a","r","i","s"," ","t","o","m","o","r","r","o","w">>

\* 'Can I get a discount on a shop policy with no claims in 5 years?'
QDiscount ==
    <<"C","a","n"," ","I"," ","g","e","t"," ","a"," ","d","i","s","c","o","u","n","t"," ","o","n",
      " ","a"," ","s","h","o","p"," ","p","o","l","i","c","y"," ","w","i","t","h"," ","n","o"," ",
      "c","l","a","i","m","s"," ","i","n"," ","5"," ","y","e","a","r","s","?">>

\* 'hello can you quote cover for a small bakery in leeds'
QHelloLong ==
    <<"h","e","l","l","o"," ","c","a","n"," ","y","o","u"," ","q","u","o","t","e"," ","c","o","v",
      "e","r"," ","f","o","r"," ","a"," ","s","m","a","l","l"," ","b","a","k","e","r","y"," ","i",
      "n"," ","l","e","e","d","s">>

\* 'i am worried about the flood cover on my shop'
QWorriedLong ==
    <<"i"," ","a","m"," ","w","o","r","r","i","e","d"," ","a","b","o","u","t"," ","t","h","e"," ",
      "f","l","o","o","d"," ","c","o","v","e","r"," ","o","n"," ","m","y"," ","s","h","o","p">>

\* 'flood exclusions'
QFlood ==
    <<"f","l","o","o","d"," ","e","x","c","l","u","s","i","o","n","s">>

\* 'hello who are you and what cover can you quote today'
QNameLong ==
    <<"h","e","l","l","o"," ","w","h","o"," ","a","r","e"," ","y","o","u"," ","a","n","d"," ","w",
      "h","a","t"," ","c","o","v","e","r"," ","c","a","n"," ","y","o","u"," ","q","u","o","t","e",
      " ","t","o","d","a","y">>

\* "who are you i'm confused"
QNameSad ==
    <<"w","h","o"," ","a","r","e"," ","y","o","u"," ","i","'","m"," ","c","o","n","f","u","s","e",
      "d">>

\* 'does the policy cover a music shop with stock'
QMusicShop ==
    <<"d","o","e","s"," ","t","h","e"," ","p","o","l","i","c","y"," ","c","o","v","e","r"," ","a",
      " ","m","u","s","i","c"," ","s","h","o","p"," ","w","i","t","h"," ","s","t","o","c","k">>

\* 'I am frustrated'
QFrustrated ==
    <<"I"," ","a","m"," ","f","r","u","s","t","r","a","t","e","d">>

\* the broker queries chat_with_agent is called with
Queries ==
    { QWhoAreYou, QYourName, QSad, QHi, QWeather,
      QDiscount, QHelloLong, QWorriedLong, QFlood, QNameLong,
      QNameSad, QMusicShop, QFrustrated }

\* 'Answer: Yes.\nDecision: Accept\nExplanation: Low risk.'
GWellFormed ==
    <<"A","n","s","w","e","r",":"," ","Y","e","s",".","\n","D","e","c","i","s","i","o","n",":",
      " ","A","c","c","e","p","t","\n","E","x","p","l","a","n","a","t","i","o","n",":"," ","L",
      "o","w"," ","r","i","s","k",".">>

\* 'Sure, that is fine.'
GPlain ==
    <<"S","u","r","e",","," ","t","h","a","t"," ","i","s"," ","f","i","n","e",".">>

\* 'Answer: ok.   Decision:   Refer   Explanation:  check limits'
GJammed ==
    <<"A","n","s","w","e","r",":"," ","o","k","."," "," "," ","D","e","c","i","s","i","o","n",":",
      " "," "," ","R","e","f","e","r"," "," "," ","E","x","p","l","a","n","a","t","i","o","n",":",
      " "," ","c","h","e","c","k"," ","l","i","m","i","t","s">>

\* 'Decision: Accept'
GDecisionOnly ==
    <<"D","e","c","i","s","i","o","n",":"," ","A","c","c","e","p","t">>

\* 'Answer: ok\nDecision:\nExplanation: none given'
GEmptyDecision ==
    <<"A","n","s","w","e","r",":"," ","o","k","\n","D","e","c","i","s","i","o","n",":","\n","E",
      "x","p","l","a","n","a","t","i","o","n",":"," ","n","o","n","e"," ","g","i","v","e","n">>

\* 'Explanation: fine'
GExplanationOnly ==
    <<"E","x","p","l","a","n","a","t","i","o","n",":"," ","f","i","n","e">>

\* the texts llm.call_as_llm may return
GenTexts ==
    { GWellFormed, GPlain, GJammed, GDecisionOnly, GEmptyDecision, GExplanationOnly }

\* 'Request timed out.'
ETimeout ==
    <<"R","e","q","u","e","s","t"," ","t","i","m","e","d"," ","o","u","t",".">>

\* 'bad Decision: field'
EDecision ==
    <<"b","a","d"," ","D","e","c","i","s","i","o","n",":"," ","f","i","e","l","d">>

\* the messages of the exceptions llm.call_as_llm may raise
GenErrors ==
    { ETimeout, EDecision }

(***************************************************************************)
(* The decisions of chat_with_agent, as functions of its inputs            *)
(***************************************************************************)

\* the templates random.choice(GENERAL_RESPONSE_TEMPLATES) may draw
Templates == {GENERAL_RESPONSE_TEMPLATES[i] : i \in 1..Len(GENERAL_RESPONSE_TEMPLATES)}

\* the fast-path test without its length condition: a faulty variant, which the
\* short-circuit property must tell apart
ShortCircuitAnyLength(q) == _is_small_talk(q) \/ _is_personal(q)

\* the fast-path test of chat_with_agent
ShortCircuit(q) ==
    (_is_small_talk(q) /\ TokenCount(q) < 10) \/ _is_personal(q)

\* the out-of-scope fallback test without its length condition: a faulty variant,
\* which the weak-retrieval property must tell apart
LooksUnrelatedKeywordOnly(q) == _is_out_of_scope(q)

\* the query part of the out-of-scope fallback test
LooksUnrelated(q) == _is_out_of_scope(q) \/ TokenCount(q) < 4

\* the except branch without the note: a faulty variant, which the
\* generation-failure property must tell apart
ErrorResponseWithoutNote(q, base, e) == _general_response(q, base)

\* response = _general_response(query, history) + f" (Encountered an error reaching model: {e})"
ErrorResponse(q, base, e) ==
    _general_response(q, base) \o ErrorNoteOpen \o e \o ErrorNoteClose

\* what the generation path makes of the response raw: whether the default block
\* is appended, and the value returned
Generated(q, raw) ==
    [appended |-> NeedsDefaultBlock(q, raw), returned |-> PostProcess(q, raw)]

\* The functions above, tabulated over the inputs of the model; Tabulated makes
\* the table an explicit function, computed once.
Tabulated(f) == f @@ <<>>
IsNameQueryOf == Tabulated([q \in Queries |-> _is_name_query(q)])
IsPersonalOf == Tabulated([q \in Queries |-> _is_personal(q)])
IsSmallTalkOf == Tabulated([q \in Queries |-> _is_small_talk(q)])
IsOutOfScopeOf == Tabulated([q \in Queries |-> _is_out_of_scope(q)])
TokenCountOf == Tabulated([q \in Queries |-> TokenCount(q)])
ShortCircuitOf == Tabulated([q \in Queries |-> ShortCircuit(q)])
LooksUnrelatedOf == Tabulated([q \in Queries |-> LooksUnrelated(q)])
GeneralResponseOf ==
    Tabulated([x \in Queries \X Templates |-> _general_response(x[1], x[2])])
ErrorResponseOf ==
    Tabulated([x \in Queries \X Templates \X GenErrors |->
                  ErrorResponse(x[1], x[2], x[3])])
GeneratedFromText ==
    Tabulated([x \in Queries \X GenTexts |-> Generated(x[1], x[2])])
GeneratedFromError ==
    Tabulated([x \in Queries \X Templates \X GenErrors |->
                  Generated(x[1], ErrorResponse(x[1], x[2], x[3]))])

(***************************************************************************)
(* Bounds of the model                                                     *)
(***************************************************************************)

\* clock ticks per second: time is counted in ticks
TicksPerSecond == 2
\* calls of chat_with_agent in one behaviour
MaxCalls == 2
\* the longest wait, retrieval latency and generation time, in ticks
MaxLatency == 1
\* the most hits a retrieval returns in the model (the source asks for k = 4)
MaxHits == 1
\* the most fragments an argument text of the normalizer is made of
MaxFrags == 3
\* process runs in one behaviour
MaxProcesses == 2
MaxThreads == 2
MaxClock == 4
MaxDocs == 3
MaxFiles == 2
MaxRows == 2
MaxHistory == 3
MaxTurns == 2
MaxInputs == 2

(***************************************************************************)
(* State                                                                   *)
(***************************************************************************)

VARIABLES
    pc,             \* where the running chat_with_agent call is; "idle" between calls
    clock,          \* time.time(), in ticks
    _last_call_ts,  \* agent_response._last_call_ts, in ticks
    numCalls,       \* calls of chat_with_agent so far
    query,          \* the query of the current (or last) call
    outcome,        \* of the last call: "none" (running or never called), "returned", "raised"
    error,          \* what a raised call raised
    path,           \* the return statement a returned call left by
    rawResponse,    \* response before post-processing (generation path)
    patched,        \* whether the default Decision block was appended
    response,       \* the value chat_with_agent returned
    scoredCalls,    \* index.similarity_search_with_score calls of this call
    retrieverCalls, \* retriever.get_relevant_documents calls of this call
    genCalls,       \* llm.call_as_llm calls of this call
    genRaised,      \* whether llm.call_as_llm raised in this call
    genBase,        \* the template _general_response drew in the except branch
    genError,       \* the message of the exception llm.call_as_llm raised
    weak_context,   \* weak_context of this call, once retrieval has returned
    retrieved,      \* whether retrieval has returned in this call
    scores,         \* scores of this call, in units of 0.5
    numDocs,        \* len(retrieved_docs) of this call
    lastGenStart,   \* when the last llm.call_as_llm started (-1: never)
    prevGenStart,   \* when the one before it started (-1: none)
    chatEmpty,      \* whether load_chat_data returned no documents
    apiKey,         \* whether OPENAI_API_KEY is available (environment or secret)
    useFaissEnv,    \* USE_FAISS_FALLBACK == "1"
    chromaDir,      \* whether VECTOR_DB_PATH exists and is not empty
    faissDir,       \* whether FAISS_DB_PATH holds a saved index
    _vectorstore,   \* embedding_index._vectorstore: 0 is None, else the instance
    nextInst,       \* the next fresh vector store instance
    lastIndex,      \* what the last build_or_load_index call returned (0: nothing)
    firstIndex,     \* what the first successful build_or_load_index returned (0: none yet)
    embedCalls,     \* embedding invocations so far
    backendOps,     \* backend load and create steps so far
    diskOps,        \* reads and writes of the index directories so far
    buildReturns,   \* successful returns of build_or_load_index so far
    buildLog,       \* the backend steps of the last build_or_load_index call, in order
    normInput,      \* the argument of a direct _normalize_section_formatting call
    normOutput,     \* what that call returned
    processRuns,    \* process runs so far, the current one included
    callsInProcess, \* direct build_or_load_index calls of the current process
    threads,        \* the threads running chat_with_agent concurrently: where each
                    \* is and its locals
    ingestIn,       \* a direct call of a data_loader function: which one, its argument
    ingestOut,      \* the documents that call returned
    splitPieces,    \* what splitter.split_text returned during that call, in order
    MAX_HISTORY_TURNS, \* agent_response.MAX_HISTORY_TURNS, read from the environment
    history,        \* the caller's history list, which chat_with_agent is passed
    history_block,  \* what _build_history_block returned last
    chat_history,   \* st.session_state.chat_history of app.py
    indexResource   \* what st.cache_resource holds for get_index; 0 when nothing

callVars == <<query, outcome, error, path, rawResponse, patched, response,
              scoredCalls, retrieverCalls, genCalls, genRaised, genBase, genError,
              weak_context, retrieved, scores, numDocs>>
timeVars == <<clock, _last_call_ts, lastGenStart, prevGenStart>>
indexVars == <<_vectorstore, nextInst, lastIndex, firstIndex, embedCalls, backendOps,
               diskOps, buildReturns, buildLog, chromaDir, faissDir>>
envVars == <<apiKey, useFaissEnv>>
normVars == <<normInput, normOutput>>
procVars == <<processRuns, callsInProcess>>
\* what chat_with_agent leaves alone
ingestVars == <<ingestIn, ingestOut, splitPieces>>
histVars == <<MAX_HISTORY_TURNS, history, history_block>>
appVars == <<chat_history, indexResource>>
otherVars == <<normVars, procVars, threads, ingestVars, histVars, appVars>>
vars == <<pc, numCalls, chatEmpty, callVars, timeVars, indexVars, envVars, otherVars>>

\* _min_call_interval = float(os.getenv("MIN_LLM_INTERVAL", 1.0)), in ticks
_min_call_interval == 1 * TicksPerSecond

\* the threads of the process that serve sessions
Threads == 1..MaxThreads

\* a thread about to call chat_with_agent: at is the statement it is at, now its
\* local now, wake when its time.sleep ends, left when it assigned _last_call_ts
\* (-1: not yet), entered whether it passed the cache test of build_or_load_index
\* with the cache empty, got the index it was returned (0: none), raised what
\* it raised
ThreadStart ==
    [at |-> "start", now |-> 0, wake |-> 0, left |-> -1, entered |-> FALSE,
     got |-> 0, raised |-> "none"]

\* the process at start, before any call
ProcessInit ==
    /\ clock = _min_call_interval   \* time.time() is far past _last_call_ts = 0.0
    /\ _last_call_ts = 0
    /\ numCalls = 0
    /\ query = <<>>
    /\ outcome = "none"
    /\ error = "none"
    /\ path = "none"
    /\ rawResponse = <<>>
    /\ patched = FALSE
    /\ response = <<>>
    /\ scoredCalls = 0
    /\ retrieverCalls = 0
    /\ genCalls = 0
    /\ genRaised = FALSE
    /\ genBase = <<>>
    /\ genError = <<>>
    /\ weak_context = FALSE
    /\ retrieved = FALSE
    /\ scores = <<>>
    /\ numDocs = 0
    /\ lastGenStart = -1
    /\ prevGenStart = -1
    /\ chatEmpty = FALSE
    /\ apiKey \in BOOLEAN
    /\ useFaissEnv \in BOOLEAN
    /\ chromaDir \in BOOLEAN
    /\ faissDir = FALSE
    /\ _vectorstore = 0
    /\ nextInst = 1
    /\ lastIndex = 0
    /\ firstIndex = 0
    /\ embedCalls = 0
    /\ backendOps = 0
    /\ diskOps = 0
    /\ buildReturns = 0
    /\ buildLog = <<>>
    /\ processRuns = 1
    /\ callsInProcess = 0
    /\ threads = [t \in Threads |-> ThreadStart]

\* MAX_HISTORY_TURNS = int(os.getenv("MAX_HISTORY_TURNS", 8)), no history passed
\* yet, and an app.py session that has just started
HistoryIdle ==
    /\ MAX_HISTORY_TURNS = 8
    /\ history = <<>>
    /\ history_block = <<>>
    /\ chat_history = <<>>
    /\ indexResource = 0

\* no data_loader function has been called directly
IngestIdle ==
    /\ ingestIn = [op |-> "none"]
    /\ ingestOut = <<>>
    /\ splitPieces = <<>>

Init ==
    /\ pc = "idle"
    /\ normInput = <<>>
    /\ normOutput = <<>>
    /\ IngestIdle
    /\ HistoryIdle
    /\ ProcessInit

(***************************************************************************)
(* chat_with_agent, step by step                                           *)
(***************************************************************************)

\* how long the throttle of chat_with_agent sleeps when entered at time now
ThrottleSleep(now) ==
    IF now - _last_call_ts < _min_call_interval
    THEN _min_call_interval - (now - _last_call_ts)
    ELSE 0

\* the call returns value r by the return statement named p
Return(r, p) ==
    /\ pc' = "idle"
    /\ outcome' = "returned"
    /\ response' = r
    /\ path' = p
    /\ error' = "none"

\* the call raises e to its caller
Raise(e) ==
    /\ pc' = "idle"
    /\ outcome' = "raised"
    /\ response' = <<>>
    /\ path' = "none"
    /\ error' = e

\* the call goes on to step p
Goto(p) ==
    /\ pc' = p
    /\ outcome' = "none"
    /\ response' = <<>>
    /\ path' = "none"
    /\ error' = "none"

\* chat_with_agent(q, h) is entered wait ticks after the last call ended: the
\* throttle, then the fast path
Enter(q, wait, h) ==
    /\ numCalls' = numCalls + 1
    /\ LET now == clock + wait
       IN  /\ clock' = now + ThrottleSleep(now)
           /\ _last_call_ts' = now + ThrottleSleep(now)
    /\ query' = q
    /\ rawResponse' = <<>>
    /\ patched' = FALSE
    /\ scoredCalls' = 0
    /\ retrieverCalls' = 0
    /\ genCalls' = 0
    /\ genRaised' = FALSE
    /\ genBase' = <<>>
    /\ genError' = <<>>
    /\ weak_context' = FALSE
    /\ retrieved' = FALSE
    /\ scores' = <<>>
    /\ numDocs' = 0
    /\ IF ShortCircuitOf[q]
       THEN \E base \in Templates : Return(GeneralResponseOf[<<q, base>>], "shortcircuit")
       ELSE Goto("ingest")
    \* history = history or []; _general_response does not read it
    /\ history' = h
    /\ history_block' = <<>>
    /\ UNCHANGED <<lastGenStart, prevGenStart, chatEmpty, indexVars, envVars, normVars,
                   procVars, threads, ingestVars, MAX_HISTORY_TURNS, appVars>>

\* a caller's next chat_with_agent(q, history) call
Call(q, wait) ==
    /\ pc = "idle"
    /\ numCalls < MaxCalls
    /\ Enter(q, wait, HistoryOfCall(numCalls + 1))

\* load_chat_data and load_policy_docs: they read the sources again on every
\* call; either may raise, and the chat documents may be none
Load(at, next) ==
    /\ pc = at
    /\ \E ok \in BOOLEAN, empty \in BOOLEAN :
         IF ok
         THEN /\ chatEmpty' = empty
              /\ Goto(next)
         ELSE /\ ~empty
              /\ chatEmpty' = chatEmpty
              /\ Raise("ingest")
    /\ UNCHANGED <<numCalls, query, rawResponse, patched, scoredCalls, retrieverCalls,
                   genCalls, genRaised, genBase, genError, weak_context, retrieved,
                   scores, numDocs, timeVars, indexVars, envVars, otherVars>>

\* the two loads of chat_with_agent
Ingest == Load("ingest", "index")

(***************************************************************************)
(* build_or_load_index of embedding_index.py                               *)
(***************************************************************************)

\* which steps of this build_or_load_index call fail: the Chroma load, the Chroma
\* create, the Chroma persist, the FAISS create, the FAISS save
BuildFailures == [load : BOOLEAN, create : BOOLEAN, persist : BOOLEAN,
                  faiss : BOOLEAN, save : BOOLEAN]

\* the index state as build_or_load_index leaves it: ret is the instance it
\* returns (0 when it raises) and err what it raises ("none" when it returns)
IndexState(vs, inst, embed, ops, disk, chroma, faiss, ret, err, log) ==
    [vs |-> vs, inst |-> inst, embed |-> embed, ops |-> ops, disk |-> disk,
     chroma |-> chroma, faiss |-> faiss, ret |-> ret, err |-> err, log |-> log]

\* a backend step of build_or_load_index and whether it raised
Step(name, raised) == <<name, IF raised THEN "raised" ELSE "ok">>

\* a cache test that never finds the cache: a faulty variant, which the
\* index-cache property must tell apart
IndexNeverCached == FALSE

\* if _vectorstore is not None
IndexCached == _vectorstore # 0

\* the FAISS fallback: FAISS.from_documents, then save_local in a try block;
\* vs is what _vectorstore holds when the fallback is entered, log the steps so far
FaissFallback(f, vs, inst, embed, ops, disk, chroma, log) ==
    IF f.faiss
    THEN IndexState(vs, inst, embed + 1, ops + 1, disk, chroma, faissDir, 0, "backend",
                    Append(log, Step("faiss.create", TRUE)))
    ELSE IndexState(inst, inst + 1, embed + 1, ops + 1, disk + 1, chroma,
                    IF f.save THEN faissDir ELSE TRUE, inst, "none",
                    log \o <<Step("faiss.create", FALSE), Step("faiss.save", f.save)>>)

\* Chroma.from_documents and persist, falling back to FAISS on an exception
ChromaCreate(f, ops, disk, log) ==
    IF f.create
    THEN FaissFallback(f, 0, nextInst, embedCalls + 1, ops + 1, disk, chromaDir,
                       Append(log, Step("chroma.create", TRUE)))
    ELSE IF f.persist
    THEN FaissFallback(f, nextInst, nextInst + 1, embedCalls + 1, ops + 1, disk + 1,
                       chromaDir,
                       log \o <<Step("chroma.create", FALSE), Step("chroma.persist", TRUE)>>)
    ELSE IndexState(nextInst, nextInst + 1, embedCalls + 1, ops + 1, disk + 1, TRUE,
                    faissDir, nextInst, "none",
                    log \o <<Step("chroma.create", FALSE), Step("chroma.persist", FALSE)>>)

\* a key lookup that finds a key whether or not one is set: a faulty variant, which
\* the configuration-error property must tell apart
KeyAssumed == "key"

\* _get_api_key(): the key, or the RuntimeError it raises
_get_api_key == IF apiKey THEN "key" ELSE "RuntimeError"

\* build_or_load_index past its cache test, with the failures f
BuildUncached(f) ==
    IF _get_api_key = "RuntimeError"
    THEN IndexState(0, nextInst, embedCalls, backendOps, diskOps, chromaDir, faissDir,
                    0, "config", <<>>)
    ELSE LET tryChroma == ~useFaissEnv
             \* os.path.exists(VECTOR_DB_PATH) and os.listdir(VECTOR_DB_PATH)
             probed == diskOps + (IF tryChroma THEN 1 ELSE 0)
             loading == tryChroma /\ chromaDir
             \* after the load attempt, if it was made
             ops1 == backendOps + (IF loading THEN 1 ELSE 0)
             disk1 == probed + (IF loading THEN 1 ELSE 0)
             log1 == IF loading THEN <<Step("chroma.load", f.load)>> ELSE <<>>
             prefer_faiss == useFaissEnv \/ (loading /\ f.load)
         IN  IF loading /\ ~f.load
             THEN IndexState(nextInst, nextInst + 1, embedCalls, ops1, disk1, chromaDir,
                             faissDir, nextInst, "none", log1)
             ELSE IF chatEmpty    \* chat_data_chunks[0] raises IndexError
             THEN IndexState(0, nextInst, embedCalls, ops1, disk1, chromaDir, faissDir,
                             0, "index", log1)
             ELSE IF ~prefer_faiss
             THEN ChromaCreate(f, ops1, disk1, log1)
             ELSE FaissFallback(f, 0, nextInst, embedCalls, ops1, disk1, chromaDir, log1)

\* build_or_load_index(chat_data_chunks, policy_docs) with the failures f
build_or_load_index(f) ==
    IF IndexCached
    THEN IndexState(_vectorstore, nextInst, embedCalls, backendOps, diskOps,
                    chromaDir, faissDir, _vectorstore, "none", <<>>)
    ELSE BuildUncached(f)

\* a build_or_load_index call made at step at, going on to step next
BuildAt(at, next) ==
    /\ pc = at
    /\ \E f \in BuildFailures :
         LET r == build_or_load_index(f)
         IN  /\ _vectorstore' = r.vs
             /\ nextInst' = r.inst
             /\ embedCalls' = r.embed
             /\ backendOps' = r.ops
             /\ diskOps' = r.disk
             /\ chromaDir' = r.chroma
             /\ faissDir' = r.faiss
             /\ lastIndex' = r.ret
             /\ buildLog' = r.log
             /\ firstIndex' = IF firstIndex = 0 THEN r.ret ELSE firstIndex
             /\ buildReturns' = buildReturns + (IF r.err = "none" THEN 1 ELSE 0)
             /\ IF r.err = "none" THEN Goto(next) ELSE Raise(r.err)
    /\ UNCHANGED <<numCalls, chatEmpty, query, rawResponse, patched, scoredCalls,
                   retrieverCalls, genCalls, genRaised, genBase, genError, weak_context,
                   retrieved, scores, numDocs, timeVars, envVars, otherVars>>

\* the build_or_load_index call of chat_with_agent
BuildOrLoadIndex == BuildAt("index", "retrieve")

(***************************************************************************)
(* Retrieval, routing and generation of chat_with_agent                    *)
(***************************************************************************)

RECURSIVE SumSeq(_)
SumSeq(s) == IF s = <<>> THEN 0 ELSE Head(s) + SumSeq(Tail(s))

\* the threshold 1.5 of weak_context, in units of 0.5
WeakThreshold == 3

\* the scores a hit may carry, in units of 0.5: 1.0, 1.5 and 2.0
ScoreValues == {WeakThreshold - 1, WeakThreshold, WeakThreshold + 1}

\* the score lists similarity_search_with_score may return
ScoreSeqs == UNION {[1..n -> ScoreValues] : n \in 0..MaxHits}

\* weak_context, had the branch without scores been taken for weak
WeakContextWithoutScores(n, s) ==
    IF n = 0 THEN TRUE
    ELSE IF s # <<>> THEN SumSeq(s) > WeakThreshold * Len(s)
    ELSE TRUE

\* weak_context, had the comparison with the threshold been >=
WeakContextAtThreshold(n, s) ==
    IF n = 0 THEN TRUE
    ELSE IF s # <<>> THEN SumSeq(s) >= WeakThreshold * Len(s)
    ELSE FALSE

\* weak_context of chat_with_agent, for n retrieved documents with scores s;
\* avg_score > 1.5 is sum(scores) > 1.5 * len(scores)
WeakContext(n, s) ==
    IF n = 0 THEN TRUE
    ELSE IF s # <<>> THEN SumSeq(s) > WeakThreshold * Len(s)
    ELSE FALSE

\* retrieval has returned n documents with scores s: set weak_context, render the
\* history block, then either return the general response or go on to generation
Route(n, s) ==
    /\ scores' = s
    /\ numDocs' = n
    /\ retrieved' = TRUE
    /\ weak_context' = WeakContext(n, s)
    /\ history_block' = _build_history_block(history, MAX_HISTORY_TURNS)
    /\ history' = HistoryAfterBlock(history, MAX_HISTORY_TURNS)
    /\ IF WeakContext(n, s) /\ LooksUnrelatedOf[query]
       THEN \E base \in Templates : Return(GeneralResponseOf[<<query, base>>], "weak")
       ELSE Goto("generate")

\* the scored search, the unscored retriever when it raises, and the routing
Retrieve ==
    /\ pc = "retrieve"
    /\ \E d \in 0..MaxLatency : clock' = clock + d
    /\ scoredCalls' = scoredCalls + 1
    /\ \E scoredOk \in BOOLEAN, retrieverOk \in BOOLEAN :
         IF scoredOk
         THEN /\ retrieverOk
              /\ retrieverCalls' = retrieverCalls
              /\ \E s \in ScoreSeqs : Route(Len(s), s)
         ELSE /\ retrieverCalls' = retrieverCalls + 1
              /\ IF retrieverOk
                 THEN \E n \in 0..MaxHits : Route(n, <<>>)
                 ELSE /\ Raise("retrieval")
                      /\ UNCHANGED <<scores, numDocs, retrieved, weak_context, history,
                                     history_block>>
    /\ UNCHANGED <<numCalls, chatEmpty, query, rawResponse, patched, genCalls, genRaised,
                   genBase, genError, _last_call_ts, lastGenStart, prevGenStart,
                   indexVars, envVars, normVars, procVars, threads, ingestVars,
                   MAX_HISTORY_TURNS, appVars>>

\* llm.call_as_llm(prompt) in its try block, the post-processing and the return
Generate ==
    /\ pc = "generate"
    /\ genCalls' = genCalls + 1
    /\ prevGenStart' = lastGenStart
    /\ lastGenStart' = clock
    /\ \E d \in 0..MaxLatency : clock' = clock + d
    /\ \E ok \in BOOLEAN, g \in GenTexts, e \in GenErrors, base \in Templates :
         LET raw == IF ok THEN g ELSE ErrorResponseOf[<<query, base, e>>]
             out == IF ok THEN GeneratedFromText[<<query, g>>]
                          ELSE GeneratedFromError[<<query, base, e>>]
         IN  \* one draw of the inputs the branch taken does not read
             /\ ok => (e = ETimeout /\ base = GENERAL_RESPONSE_TEMPLATES[1])
             /\ ~ok => g = GPlain
             /\ genRaised' = ~ok
             /\ genBase' = IF ok THEN <<>> ELSE base
             /\ genError' = IF ok THEN <<>> ELSE e
             /\ rawResponse' = raw
             /\ patched' = out.appended
             /\ Return(out.returned, "generated")
    /\ UNCHANGED <<numCalls, chatEmpty, query, scoredCalls, retrieverCalls, weak_context,
                   retrieved, scores, numDocs, _last_call_ts, indexVars, envVars,
                   otherVars>>

Next ==
    \/ \E q \in Queries, wait \in 0..MaxLatency : Call(q, wait)
    \/ Ingest
    \/ BuildOrLoadIndex
    \/ Retrieve
    \/ Generate

Spec == Init /\ [][Next]_vars

(***************************************************************************)
(* _normalize_section_formatting called directly                           *)
(***************************************************************************)

\* the pieces the argument texts are made of
Fragments == {AnswerLabel, DecisionLabel, ExplanationLabel, <<" ">>, <<"\n">>, <<"x">>}

\* the argument texts: up to MaxFrags fragments, joined
NormInputs == {Join(fs) : fs \in UNION {[1..n -> Fragments] : n \in 0..MaxFrags}}

\* the caller holds an argument text
NormInit ==
    /\ pc = "normalize"
    /\ normInput \in NormInputs
    /\ normOutput = <<>>
    /\ IngestIdle
    /\ HistoryIdle
    /\ ProcessInit
    /\ apiKey
    /\ ~useFaissEnv
    /\ ~chromaDir

\* _normalize_section_formatting(normInput)
Normalize ==
    /\ pc = "normalize"
    /\ normOutput' = _normalize_section_formatting(normInput)
    /\ pc' = "normalized"
    /\ UNCHANGED <<numCalls, chatEmpty, callVars, timeVars, indexVars, envVars, normInput,
                   procVars, threads, ingestVars, histVars, appVars>>

NormNext == Normalize

SpecNorm == NormInit /\ [][NormNext]_vars

(***************************************************************************)
(* build_or_load_index called directly, over several process runs          *)
(***************************************************************************)

\* a machine on which no index has been persisted, and a first process
IndexInit ==
    /\ Init
    /\ ~chromaDir

\* build_or_load_index(chat_data, policy_docs), called as app.get_index calls it
DirectBuild ==
    /\ pc = "idle"
    /\ callsInProcess < MaxCalls
    /\ callsInProcess' = callsInProcess + 1
    /\ \E f \in BuildFailures :
         LET r == build_or_load_index(f)
         IN  /\ _vectorstore' = r.vs
             /\ nextInst' = r.inst
             /\ embedCalls' = r.embed
             /\ backendOps' = r.ops
             /\ diskOps' = r.disk
             /\ chromaDir' = r.chroma
             /\ faissDir' = r.faiss
             /\ lastIndex' = r.ret
             /\ buildLog' = r.log
             /\ firstIndex' = IF firstIndex = 0 THEN r.ret ELSE firstIndex
             /\ buildReturns' = buildReturns + (IF r.err = "none" THEN 1 ELSE 0)
             /\ outcome' = IF r.err = "none" THEN "returned" ELSE "raised"
             /\ error' = r.err
    /\ UNCHANGED <<pc, numCalls, chatEmpty, query, path, rawResponse, patched, response,
                   scoredCalls, retrieverCalls, genCalls, genRaised, genBase, genError,
                   weak_context, retrieved, scores, numDocs, timeVars, envVars, normVars,
                   processRuns, threads, ingestVars, histVars, appVars>>

\* the process ends and a new one starts: the module globals are as at import,
\* the index directories and the environment are as the old process left them
Restart ==
    /\ pc = "idle"
    /\ processRuns < MaxProcesses
    /\ processRuns' = processRuns + 1
    /\ callsInProcess' = 0
    /\ _vectorstore' = 0
    /\ lastIndex' = 0
    /\ firstIndex' = 0
    /\ embedCalls' = 0
    /\ backendOps' = 0
    /\ diskOps' = 0
    /\ buildReturns' = 0
    /\ buildLog' = <<>>
    /\ outcome' = "none"
    /\ error' = "none"
    /\ UNCHANGED <<pc, numCalls, chatEmpty, query, path, rawResponse, patched, response,
                   scoredCalls, retrieverCalls, genCalls, genRaised, genBase, genError,
                   weak_context, retrieved, scores, numDocs, timeVars, envVars, normVars,
                   nextInst, chromaDir, faissDir, threads, ingestVars, histVars, appVars>>

IndexNext == DirectBuild \/ Restart

SpecIndex == IndexInit /\ [][IndexNext]_vars

(***************************************************************************)
(* chat_with_agent called by several threads of one process: the throttle  *)
(* and the index build, statement by statement                             *)
(***************************************************************************)

\* thread t moves on with the locals in the record changes
Advance(t, changes) == threads' = [threads EXCEPT ![t] = changes @@ threads[t]]

\* what the threads of this section leave alone
threadFrame == <<pc, numCalls, chatEmpty, callVars, lastGenStart, prevGenStart, envVars,
                 normVars, procVars, ingestVars, histVars, appVars>>

\* now = time.time()
ReadClock(t) ==
    /\ threads[t].at = "start"
    /\ Advance(t, [at |-> "throttle", now |-> clock])
    /\ UNCHANGED <<threadFrame, clock, _last_call_ts, indexVars>>

\* if now - _last_call_ts < _min_call_interval: time.sleep(...)
EnterSleep(t) ==
    /\ threads[t].at = "throttle"
    /\ Advance(t, [at |-> "sleeping", wake |-> clock + ThrottleSleep(threads[t].now)])
    /\ UNCHANGED <<threadFrame, clock, _last_call_ts, indexVars>>

\* time.sleep has returned: _last_call_ts = time.time()
LeaveThrottle(t) ==
    /\ threads[t].at = "sleeping"
    /\ clock >= threads[t].wake
    /\ _last_call_ts' = clock
    /\ Advance(t, [at |-> "cache", left |-> clock])
    /\ UNCHANGED <<threadFrame, clock, indexVars>>

\* build_or_load_index: if _vectorstore is not None: return _vectorstore
CheckCache(t) ==
    /\ threads[t].at = "cache"
    /\ IF IndexCached
       THEN Advance(t, [at |-> "done", got |-> _vectorstore])
       ELSE Advance(t, [at |-> "build", entered |-> TRUE])
    /\ UNCHANGED <<threadFrame, clock, _last_call_ts, indexVars>>

\* build_or_load_index past the cache test, up to its return statement or to
\* the exception it raises
Build(t) ==
    /\ threads[t].at = "build"
    /\ \E f \in BuildFailures :
         LET r == BuildUncached(f)
         IN  /\ _vectorstore' = IF r.vs = 0 THEN _vectorstore ELSE r.vs
             /\ nextInst' = r.inst
             /\ embedCalls' = r.embed
             /\ backendOps' = r.ops
             /\ diskOps' = r.disk
             /\ chromaDir' = r.chroma
             /\ faissDir' = r.faiss
             /\ buildLog' = r.log
             /\ IF r.err = "none"
                THEN Advance(t, [at |-> "return"])
                ELSE Advance(t, [at |-> "done", raised |-> r.err])
    /\ UNCHANGED <<threadFrame, clock, _last_call_ts, lastIndex, firstIndex, buildReturns>>

\* return _vectorstore
ReturnIndex(t) ==
    /\ threads[t].at = "return"
    /\ Advance(t, [at |-> "done", got |-> _vectorstore])
    /\ UNCHANGED <<threadFrame, clock, _last_call_ts, indexVars>>

\* time passes
Tick ==
    /\ clock < MaxClock
    /\ clock' = clock + 1
    /\ UNCHANGED <<threadFrame, _last_call_ts, indexVars, threads>>

ThreadNext ==
    \/ \E t \in Threads :
          \/ ReadClock(t)
          \/ EnterSleep(t)
          \/ LeaveThrottle(t)
          \/ CheckCache(t)
          \/ Build(t)
          \/ ReturnIndex(t)
    \/ Tick

SpecThreads == Init /\ [][ThreadNext]_vars

(***************************************************************************)
(* data_loader.py: _normalize, _hash, dedupe_documents                     *)
(***************************************************************************)

\* re.sub(r"\s+", " ", s): every maximal run of whitespace becomes one space
CollapseSpaces(s) ==
    LET Keep(i) == ~IsSpace(s[i]) \/ i = 1 \/ ~IsSpace(s[i - 1])
        sel == SelectSeq(Positions(Len(s)), Keep)
    IN  AsTuple([k \in 1..Len(sel) |-> IF IsSpace(s[sel[k]]) THEN " " ELSE s[sel[k]]])

\* _normalize(text)
_normalize(text) == CollapseSpaces(Lower(Strip(text)))

\* _hash(text): the SHA-1 digest of the text, taken as free of collisions
_hash(text) == <<"sha1", text>>

\* Document(page_content=content, metadata={"source": source})
Document(content, source) == [page_content |-> content, source |-> source]

\* a deduplication that keeps the last document of each key instead of the
\* first: a faulty variant, which the deduplication property must tell apart
DedupeKeepLast(documents) ==
    LET Key(i) == _hash(_normalize(documents[i].page_content))
        IsLast(i) == \A j \in (i + 1)..Len(documents) : Key(j) # Key(i)
        sel == SelectSeq(Positions(Len(documents)), IsLast)
    IN  AsTuple([k \in 1..Len(sel) |-> documents[sel[k]]])

\* the loop of dedupe_documents over the documents left, with seen and unique
RECURSIVE DedupeLoop(_, _, _)
DedupeLoop(documents, seen, unique) ==
    IF documents = <<>>
    THEN unique
    ELSE LET d == Head(documents)
             h == _hash(_normalize(d.page_content))
         IN  IF h \in seen
             THEN DedupeLoop(Tail(documents), seen, unique)
             ELSE DedupeLoop(Tail(documents), seen \cup {h}, Append(unique, d))

\* dedupe_documents(documents)
dedupe_documents(documents) == DedupeLoop(documents, {}, <<>>)

(***************************************************************************)
(* data_loader.py: chunk_text                                              *)
(***************************************************************************)

\* MIN_CHUNK_CHARS = int(os.getenv("MIN_CHUNK_CHARS", 80))
MIN_CHUNK_CHARS == 80

\* the text of n characters c
TextOf(c, n) == AsTuple([k \in 1..n |-> c])

\* where the splitter may cut a text: after these many characters
CutPoints == {1, MIN_CHUNK_CHARS - 1, MIN_CHUNK_CHARS, MIN_CHUNK_CHARS + 1}

\* splitter.split_text(text) of the RecursiveCharacterTextSplitter, which is not
\* part of the repository: the pieces of text between those of the cuts that
\* fall inside it, in order; no piece for an empty text
split_text(text, cuts) ==
    LET inside == {c \in cuts : c < Len(text)}
        starts == {0} \cup inside
        nth(k) == CHOOSE a \in starts : Cardinality({b \in starts : b < a}) = k - 1
        end(a) == IF \E c \in inside : c > a
                  THEN CHOOSE c \in inside : c > a /\ \A e \in inside : e > a => c <= e
                  ELSE Len(text)
    IN  IF text = <<>>
        THEN <<>>
        ELSE AsTuple([k \in 1..Cardinality(starts) |->
                         SubSeq(text, nth(k) + 1, end(nth(k)))])

\* a chunk_text that keeps every piece: a faulty variant, which the chunk-length
\* property must tell apart
ChunkTextUnfiltered(pieces, source) ==
    AsTuple([k \in 1..Len(pieces) |-> Document(pieces[k], source)])

\* chunk_text(text, source), the splitter having returned pieces for the text
chunk_text(pieces, source) ==
    LET Long(chunk) == ~(Len(chunk) < MIN_CHUNK_CHARS)
        kept == SelectSeq(pieces, Long)
    IN  AsTuple([k \in 1..Len(kept) |-> Document(kept[k], source)])

\* the texts a direct chunk_text call is given
ChunkTexts ==
    {TextOf("a", n) : n \in {0, MIN_CHUNK_CHARS - 1, MIN_CHUNK_CHARS, 2 * MIN_CHUNK_CHARS}}

(***************************************************************************)
(* data_loader.py: load_policy_docs and load_chat_data; dataprocess.py:    *)
(* load_chat_data                                                          *)
(***************************************************************************)

\* load_policy_docs(policy_folder) over the files os.walk yields, the splitter
\* cutting the text of the i-th file at cuts[i]: raised tells whether
\* loader.load() raised, documents is what is returned otherwise
load_policy_docs(files, cuts) ==
    LET Recognized(file) == EndsWith(file.name, <<".","p","d","f">>)
                            \/ EndsWith(file.name, <<".","d","o","c","x">>)
        Pieces(i) == split_text(JoinLines(files[i].pages), cuts[i])
        PiecesOf(i) == IF Recognized(files[i]) THEN Pieces(i) ELSE <<>>
        Chunks(i) == chunk_text(PiecesOf(i), files[i].name)
    IN  [raised |-> \E i \in 1..Len(files) : Recognized(files[i]) /\ files[i].unreadable,
         pieces |-> Join([i \in 1..Len(files) |-> PiecesOf(i)]),
         documents |-> dedupe_documents(Join([i \in 1..Len(files) |-> Chunks(i)]))]

\* chat_text of a row of load_chat_data, from str(transcript)
chat_text(transcript) ==
    LET \* re.sub(r'<.*?>', '', ...): a "<" up to the next ">" of its line
        InTag(s, i) ==
            \E a \in {x \in 1..i : s[x] = "<"} :
                \E c \in {x \in i..Len(s) : s[x] = ">"} :
                    a < c /\ \A k \in (a + 1)..(c - 1) : s[k] \notin {">", "\n"}
        NotInTag(i) == ~InTag(transcript, i)
        kept == SelectSeq(Positions(Len(transcript)), NotInTag)
        clean == Strip(AsTuple([k \in 1..Len(kept) |-> transcript[kept[k]]]))
        \* .split('\n')
        starts == {1} \cup {i + 1 : i \in {x \in 1..Len(clean) : clean[x] = "\n"}}
        nth(k) == CHOOSE a \in starts : Cardinality({b \in starts : b < a}) = k - 1
        end(a) == IF \E x \in a..Len(clean) : clean[x] = "\n"
                  THEN (CHOOSE x \in a..Len(clean) :
                            clean[x] = "\n" /\ \A y \in a..(x - 1) : clean[y] # "\n") - 1
                  ELSE Len(clean)
        lines == [k \in 1..Cardinality(starts) |-> SubSeq(clean, nth(k), end(nth(k)))]
        \* re.match(r'\d{2}:\d{2}:\d{2} - (.*?) - (.*)', line)
        Digit(c) == c \in {"0","1","2","3","4","5","6","7","8","9"}
        Dash(line, k) == k + 2 <= Len(line) /\ SubSeq(line, k, k + 2) = <<" ","-"," ">>
        Seps(line) == {k \in 12..Len(line) : Dash(line, k)}
        Matches(line) ==
            /\ Len(line) >= 14
            /\ \A k \in {1, 2, 4, 5, 7, 8} : Digit(line[k])
            /\ line[3] = ":" /\ line[6] = ":"
            /\ Dash(line, 9)
            /\ Seps(line) # {}
        Sep(line) == CHOOSE k \in Seps(line) : \A j \in Seps(line) : k <= j
        sender(line) == Strip(SubSeq(line, 12, Sep(line) - 1))
        message(line) == Strip(SubSeq(line, Sep(line) + 3, Len(line)))
        Said(line) == Matches(line) /\ sender(line) # <<>>
        said == SelectSeq(lines, Said)
    IN  JoinLines([k \in 1..Len(said) |->
                      sender(said[k]) \o <<":", " ">> \o message(said[k])])

\* load_chat_data(chat_excel_path) of data_loader.py over the rows of the sheet,
\* the splitter cutting the text of the i-th row at cuts[i]
load_chat_data(rows, cuts) ==
    LET PiecesOf(i) == IF rows[i].isna
                       THEN <<>>
                       ELSE split_text(chat_text(rows[i].TRANSCRIPT), cuts[i])
    IN  [pieces |-> Join([i \in 1..Len(rows) |-> PiecesOf(i)]),
         documents |->
             dedupe_documents(
                 Join([i \in 1..Len(rows) |-> chunk_text(PiecesOf(i), "chat")]))]

\* load_chat_data(chat_excel_path) of dataprocess.py over the rows of the sheet
dataprocess_load_chat_data(rows) ==
    LET NotNa(row) == ~row.isna
        read == SelectSeq(rows, NotNa)
    IN  AsTuple([k \in 1..Len(read) |-> Document(chat_text(read[k].TRANSCRIPT), "row")])

\* the files of the policy folder: a PDF, a Word file, a text file; one page of
\* MIN_CHUNK_CHARS characters or two pages that make MIN_CHUNK_CHARS when joined;
\* readable or not
PolicyFiles ==
    [name : {<<"a",".","p","d","f">>, <<"b",".","d","o","c","x">>, <<"c",".","t","x","t">>},
     pages : {<<TextOf("p", MIN_CHUNK_CHARS)>>,
              <<TextOf("q", MIN_CHUNK_CHARS \div 2), TextOf("q", MIN_CHUNK_CHARS \div 2 - 1)>>},
     unreadable : BOOLEAN]

\* the rows of the chat sheet: a missing transcript (NaN), an empty one, one
\* with no dialogue line, one whose only dialogue line has a blank sender, one
\* with one dialogue line, one with two dialogue lines and markup
ChatRows ==
    {[isna |-> TRUE, TRANSCRIPT |-> <<>>]}
    \cup {[isna |-> FALSE, TRANSCRIPT |-> t] : t \in
             { <<>>,
               <<"C","h","a","t"," ","s","t","a","r","t","e","d","<","b","r",">">>,
               <<"1","0",":","0","1",":","0","2"," ","-"," "," ","-"," ","h","e","l","l","o">>,
               <<"1","0",":","0","1",":","0","2"," ","-"," ","A","g","e","n","t"," ","-"," ">>
                   \o TextOf("m", MIN_CHUNK_CHARS),
               <<"<","p",">","1","0",":","0","1",":","0","2"," ","-"," ","B","r","o","k","e","r"," ","-"," ","<","b",">">>
                   \o TextOf("x", MIN_CHUNK_CHARS \div 2)
                   \o <<"<","/","b",">","<","/","p",">">> \o <<"\n">>
                   \o <<"1","0",":","0","1",":","0","9"," ","-"," ","A","g","e","n","t"," ","-"," ">>
                   \o TextOf("y", MIN_CHUNK_CHARS \div 2) }}

(***************************************************************************)
(* Direct calls of the data_loader functions                               *)
(***************************************************************************)

\* page contents that differ in case and whitespace only, and some that differ
DedupeContents ==
    { <<"H","i"," "," ","T","h","e","r","e">>,
      <<" ","h","i","\t","t","h","e","r","e","\n">>,
      <<"h","i"," ","t","h","e","r","e">>,
      <<"h","i","t","h","e","r","e">>,
      <<"B","y","e">> }

\* the documents a direct dedupe_documents call is given
DedupeDocs == {Document(c, s) : c \in DedupeContents, s \in {"a.pdf", "chat"}}

\* the direct calls of data_loader functions
IngestCalls ==
    {[op |-> "dedupe_documents", arg |-> ds] :
        ds \in UNION {[1..n -> DedupeDocs] : n \in 0..MaxDocs}}
    \cup {[op |-> "chunk_text", arg |-> text] : text \in ChunkTexts}
    \cup {[op |-> "load_policy_docs", arg |-> files] :
              files \in UNION {[1..n -> PolicyFiles] : n \in 0..MaxFiles}}
    \cup {[op |-> o, arg |-> rows] :
              o \in {"load_chat_data", "dataprocess.load_chat_data"},
              rows \in UNION {[1..n -> ChatRows] : n \in 0..MaxRows}}

\* a caller is about to call a data_loader function
IngestInit ==
    /\ pc = "ingesting"
    /\ ingestIn \in IngestCalls
    /\ ingestOut = <<>>
    /\ splitPieces = <<>>
    /\ normInput = <<>>
    /\ normOutput = <<>>
    /\ HistoryIdle
    /\ ProcessInit
    /\ apiKey
    /\ ~useFaissEnv
    /\ ~chromaDir

\* what a direct call of a data_loader function leaves alone
ingestFrame == <<numCalls, chatEmpty, query, path, rawResponse, patched, response,
                 scoredCalls, retrieverCalls, genCalls, genRaised, genBase, genError,
                 weak_context, retrieved, scores, numDocs, timeVars, indexVars, envVars,
                 normVars, procVars, threads, ingestIn, histVars, appVars>>

\* the direct call returns the documents docs, the splitter having returned pieces
IngestReturn(docs, pieces) ==
    /\ pc' = "ingested"
    /\ ingestOut' = docs
    /\ splitPieces' = pieces
    /\ outcome' = "returned"
    /\ error' = "none"
    /\ UNCHANGED ingestFrame

\* dedupe_documents(ingestIn.arg)
DedupeDocuments ==
    /\ pc = "ingesting"
    /\ ingestIn.op = "dedupe_documents"
    /\ IngestReturn(dedupe_documents(ingestIn.arg), <<>>)

\* chunk_text(ingestIn.arg, source="chat")
ChunkText ==
    /\ pc = "ingesting"
    /\ ingestIn.op = "chunk_text"
    /\ \E cuts \in SUBSET CutPoints :
         LET pieces == split_text(ingestIn.arg, cuts)
         IN  IngestReturn(chunk_text(pieces, "chat"), pieces)

\* load_policy_docs over the files ingestIn.arg
LoadPolicyDocs ==
    /\ pc = "ingesting"
    /\ ingestIn.op = "load_policy_docs"
    /\ \E cuts \in [1..Len(ingestIn.arg) -> SUBSET CutPoints] :
         LET r == load_policy_docs(ingestIn.arg, cuts)
         IN  IF r.raised
             THEN /\ pc' = "ingested"
                  /\ outcome' = "raised"
                  /\ error' = "ingest"
                  /\ UNCHANGED <<ingestFrame, ingestOut, splitPieces>>
             ELSE IngestReturn(r.documents, r.pieces)

\* load_chat_data of data_loader.py over the rows ingestIn.arg
LoadChatData ==
    /\ pc = "ingesting"
    /\ ingestIn.op = "load_chat_data"
    /\ \E cuts \in [1..Len(ingestIn.arg) -> SUBSET CutPoints] :
         LET r == load_chat_data(ingestIn.arg, cuts)
         IN  IngestReturn(r.documents, r.pieces)

\* load_chat_data of dataprocess.py over the rows ingestIn.arg
DataprocessLoadChatData ==
    /\ pc = "ingesting"
    /\ ingestIn.op = "dataprocess.load_chat_data"
    /\ IngestReturn(dataprocess_load_chat_data(ingestIn.arg), <<>>)

IngestNext ==
    \/ DedupeDocuments
    \/ ChunkText
    \/ LoadPolicyDocs
    \/ LoadChatData
    \/ DataprocessLoadChatData

SpecIngest == IngestInit /\ [][IngestNext]_vars

(***************************************************************************)
(* _build_history_block called directly                                    *)
(***************************************************************************)

\* the histories a direct call is given: up to MaxHistory (speaker, msg) pairs
Histories ==
    LET speakers == {AppUserLabel, AppAgentLabel, <<"B","r","o","k","e","r">>, <<"A","g","e","n","t">>,
                     <<"U+1F9D1"," ","Y","o","u">>}
        msgs == {<<"h","i">>, <<"R","e","f","e","r">>}
    IN  UNION {[1..n -> speakers \X msgs] : n \in 0..MaxHistory}

\* a caller holds a history, in a process whose MAX_HISTORY_TURNS is some n >= 0
HistoryInit ==
    /\ pc = "history"
    /\ MAX_HISTORY_TURNS \in 0..MaxTurns
    /\ history \in Histories
    /\ history_block = <<>>
    /\ chat_history = <<>>
    /\ indexResource = 0
    /\ normInput = <<>>
    /\ normOutput = <<>>
    /\ IngestIdle
    /\ ProcessInit
    /\ apiKey
    /\ ~useFaissEnv
    /\ ~chromaDir

\* _build_history_block(history)
BuildHistoryBlock ==
    /\ pc = "history"
    /\ pc' = "rendered"
    /\ history_block' = _build_history_block(history, MAX_HISTORY_TURNS)
    /\ UNCHANGED <<numCalls, chatEmpty, callVars, timeVars, indexVars, envVars, normVars,
                   procVars, threads, ingestVars, MAX_HISTORY_TURNS, history, appVars>>

HistoryNext == BuildHistoryBlock

SpecHistory == HistoryInit /\ [][HistoryNext]_vars

(***************************************************************************)
(* app.py: the handling of one submitted input                             *)
(***************************************************************************)

\* msg = f"Error: {e}", with str(e) as one character
ErrorMessage(e) == <<"E", "r", "r", "o", "r", ":", " ", e>>

\* the whole chat history as the history argument: a faulty variant, which the
\* property of the session history must tell apart
WholeHistory(entries) == entries

\* st.session_state.chat_history[:-1]
HistoryArgument(entries) == SubSeq(entries, 1, Len(entries) - 1)

\* the inputs a user submits: one answered on the fast path, one by retrieval
AppQueries == {QHi, QFlood}

\* if user_input: the user's entry is appended and the try block entered
AppSubmit(q) ==
    /\ pc = "idle"
    /\ Len(chat_history) % 2 = 0
    /\ Len(chat_history) < 2 * MaxInputs
    /\ chat_history' = Append(chat_history, <<AppUserLabel, q>>)
    /\ query' = q
    /\ Goto("get_index")
    /\ UNCHANGED <<numCalls, chatEmpty, rawResponse, patched, scoredCalls, retrieverCalls,
                   genCalls, genRaised, genBase, genError, weak_context, retrieved,
                   scores, numDocs, timeVars, indexVars, envVars, normVars, procVars,
                   threads, ingestVars, histVars, indexResource>>

\* a step of the session that changes only where it is and what is cached
appFrame ==
    UNCHANGED <<numCalls, chatEmpty, query, rawResponse, patched, scoredCalls,
                retrieverCalls, genCalls, genRaised, genBase, genError, weak_context,
                retrieved, scores, numDocs, timeVars, indexVars, envVars, normVars,
                procVars, threads, ingestVars, histVars, chat_history>>

\* get_index() when st.cache_resource holds its result
AppGetIndex ==
    /\ pc = "get_index"
    /\ indexResource # 0
    /\ Goto("call")
    /\ UNCHANGED indexResource
    /\ appFrame

\* get_index() when nothing is cached: load_chat_data and load_policy_docs
AppLoad ==
    /\ indexResource = 0
    /\ Load("get_index", "get_index.build")

\* get_index(): build_or_load_index(chat_data, policy_docs)
AppBuild == BuildAt("get_index.build", "get_index.cache")

\* get_index() has returned and st.cache_resource keeps what it returned
AppCacheIndex ==
    /\ pc = "get_index.cache"
    /\ indexResource' = lastIndex
    /\ Goto("call")
    /\ appFrame

\* response = chat_with_agent(user_input, history=st.session_state.chat_history[:-1])
AppCall ==
    /\ pc = "call"
    /\ \E wait \in 0..MaxLatency : Enter(query, wait, HistoryArgument(chat_history))

\* the try block has ended: response is what chat_with_agent returned, or the
\* message of the exception caught, and the finally clause appends it
AppFinish ==
    /\ pc = "idle"
    /\ Len(chat_history) % 2 = 1
    /\ chat_history' =
           Append(chat_history,
                  <<AppAgentLabel,
                    IF outcome = "raised" THEN ErrorMessage(error) ELSE response>>)
    /\ UNCHANGED <<pc, numCalls, chatEmpty, callVars, timeVars, indexVars, envVars,
                   normVars, procVars, threads, ingestVars, histVars, indexResource>>

AppNext ==
    \/ \E q \in AppQueries : AppSubmit(q)
    \/ AppGetIndex
    \/ AppLoad
    \/ AppBuild
    \/ AppCacheIndex
    \/ AppCall
    \/ Ingest
    \/ BuildOrLoadIndex
    \/ Retrieve
    \/ Generate
    \/ AppFinish

SpecApp == Init /\ [][AppNext]_vars

(***************************************************************************)
(* Properties of chat_with_agent                                           *)
(***************************************************************************)

\* a call of chat_with_agent has been entered; query is its query
Called == numCalls > 0

\* the last call of chat_with_agent has ended
Ended == Called /\ pc = "idle"

\* the call has made no retrieval call and no generation call
NoRetrievalOrGeneration == scoredCalls = 0 /\ retrieverCalls = 0 /\ genCalls = 0

\* q is none of small talk, out of scope or personal
Substantive(q) == ~IsSmallTalkOf[q] /\ ~IsOutOfScopeOf[q] /\ ~IsPersonalOf[q]

\* q matches a small-talk pattern, has 10 or more tokens and is not personal
LongSmallTalk(q) == IsSmallTalkOf[q] /\ TokenCountOf[q] >= 10 /\ ~IsPersonalOf[q]

\* what a call raises when ingestion or the index build fails, before retrieval
PreRetrievalErrors == {"ingest", "config", "index", "backend"}

\* C1: a call whose query is a name query makes no similarity_search_with_score
\* call, no retriever call and no generation call, and what it returns is the
\* self-identification template.
C1_NameQueryAnsweredWithoutRetrieval ==
    (Called /\ IsNameQueryOf[query]) =>
        /\ NoRetrievalOrGeneration
        /\ (pc = "idle" /\ outcome = "returned") => response = NameReply

\* C2, the part that holds of every call: the call leaves by the fast path exactly
\* when its query is (small talk with fewer than 10 tokens) or personal, and a
\* call that leaves by the fast path has made no retrieval and no generation call.
ShortCircuitsExactly ==
    Called =>
        /\ (path = "shortcircuit") <=>
               ((IsSmallTalkOf[query] /\ TokenCountOf[query] < 10) \/ IsPersonalOf[query])
        /\ (path = "shortcircuit") => (outcome = "returned" /\ NoRetrievalOrGeneration)

\* C2 as amended: the fast path is taken exactly as stated; a small-talk query of
\* 10 or more tokens that is not personal is not short-circuited, and its call
\* makes exactly one scored search (and at most one retriever call) unless
\* ingestion or the index build raised, in which case it makes no retrieval call.
C2_ShortCircuitExactlyRetrievalIfBuilt ==
    /\ ShortCircuitsExactly
    /\ (Ended /\ LongSmallTalk(query)) =>
           /\ path # "shortcircuit"
           /\ IF error \in PreRetrievalErrors
              THEN scoredCalls = 0 /\ retrieverCalls = 0
              ELSE scoredCalls = 1 /\ retrieverCalls <= 1

\* C2 as stated: the fast path is taken exactly as stated, and a small-talk query
\* of 10 or more tokens that is not personal performs exactly one retrieval.
C2_LongSmallTalkRetrievesOnce ==
    /\ ShortCircuitsExactly
    /\ (Ended /\ LongSmallTalk(query)) => (path # "shortcircuit" /\ scoredCalls = 1)

\* a long greeting went through retrieval and its call returned
C2_LongGreetingRetrieved ==
    /\ Ended
    /\ LongSmallTalk(query)
    /\ outcome = "returned"
    /\ scoredCalls = 1

\* the retrieval of the call was weak: no document, or a mean score above 1.5
RetrievalWeak ==
    numDocs = 0 \/ (scores # <<>> /\ SumSeq(scores) > WeakThreshold * Len(scores))

C4_PersonalGetsEmpatheticReply ==
    (Called /\ IsPersonalOf[query] /\ ~IsNameQueryOf[query]) =>
        /\ pc = "idle"
        /\ outcome = "returned"
        /\ response \in {EmpatheticShort, EmpatheticLong}
        /\ ~Contains(response, DecisionLabel)
        /\ ~Contains(response, ExplanationLabel)
        /\ NoRetrievalOrGeneration

\* a personal query that is also small talk got the short empathetic reply
C4_SadGetsShortReply ==
    /\ Called
    /\ query = QSad
    /\ response = EmpatheticShort

\* position i of text starts a line
AtLineStart(text, i) == i = 1 \/ text[i - 1] = "\n"

\* label occurs in text at the start of a line
OnOwnLine(text, label) ==
    \E i \in 1..Len(text) : LabelAt(text, i, label) /\ AtLineStart(text, i)

\* C5: the response a call returns from the generation path, for a query that is
\* none of small talk, out of scope or personal, holds Answer:, Decision: and
\* Explanation:, each at the start of a line.
C5_GeneratedResponseHasThreeSections ==
    (Ended /\ path = "generated" /\ Substantive(query)) =>
        \A l \in SectionLabels : OnOwnLine(response, l)

\* the general response of q with template base, followed by the note on the
\* error e
ErrorText(q, base, e) ==
    GeneralResponseOf[<<q, base>>] \o ErrorNoteOpen \o e \o ErrorNoteClose

\* the values response may hold when post-processing starts
RawResponses ==
    GenTexts \cup {ErrorText(x[1], x[2], x[3]) : x \in Queries \X Templates \X GenErrors}

\* post-processing of each of them: whether it holds Decision:, its normal form,
\* and the normal form of it with the default block appended
HasDecisionOf == Tabulated([t \in RawResponses |-> Contains(t, DecisionLabel)])
NormalizedOf == Tabulated([t \in RawResponses |-> _normalize_section_formatting(t)])
NormalizedWithBlockOf ==
    Tabulated([t \in RawResponses |->
                  _normalize_section_formatting(t \o DefaultDecisionBlock)])

\* C6: on the generation path the default block is appended exactly when the
\* response holds no Decision: and the query is none of small talk, out of scope
\* or personal; what is returned is the normal form of the response with the
\* block in that case, and of the response alone in every other case.
C6_DefaultBlockAppendedExactly ==
    (Ended /\ path = "generated") =>
        LET need == ~HasDecisionOf[rawResponse] /\ Substantive(query)
        IN  /\ patched = need
            /\ response = IF need THEN NormalizedWithBlockOf[rawResponse]
                                  ELSE NormalizedOf[rawResponse]

\* a plain answer to an underwriting query got the default block
C6_PlainAnswerPatched ==
    /\ Ended
    /\ path = "generated"
    /\ Substantive(query)
    /\ rawResponse = GPlain
    /\ patched
    /\ EndsWith(response, Tail(DefaultDecisionBlock))

\* C8: when the generation call raised, the call of chat_with_agent has returned
\* (nothing is raised to the caller), and what it returned is the general response
\* for the query followed by the note on the error, post-processed.
C8_GenerationFailureAbsorbed ==
    genRaised =>
        /\ pc = "idle"
        /\ outcome = "returned"
        /\ error = "none"
        /\ LET raw == ErrorText(query, genBase, genError)
               need == ~HasDecisionOf[raw] /\ Substantive(query)
           IN  response = IF need THEN NormalizedWithBlockOf[raw] ELSE NormalizedOf[raw]

\* the generation call raised with a message that holds Decision:, and the call
\* returned
C8_FailureWithDecisionInMessage ==
    /\ genRaised
    /\ genError = EDecision
    /\ outcome = "returned"

\* C9: any two consecutive generation calls start at least MIN_LLM_INTERVAL apart.
C9_GenerationStartsSpaced ==
    prevGenStart # -1 => lastGenStart - prevGenStart >= _min_call_interval

(***************************************************************************)
(* Properties of build_or_load_index                                       *)
(***************************************************************************)

\* C10: once build_or_load_index has returned an instance, every later call of it
\* returns that same instance and makes no embedding call, no backend load or
\* create, and no read or write of the index directories.
C10_CachedIndexReturned ==
    [][(pc = "index" /\ firstIndex # 0) =>
          /\ lastIndex' = firstIndex
          /\ buildReturns' = buildReturns + 1
          /\ embedCalls' = embedCalls
          /\ backendOps' = backendOps
          /\ diskOps' = diskOps
          /\ chromaDir' = chromaDir
          /\ faissDir' = faissDir]_vars

\* build_or_load_index has returned twice, the second time from the cache
C10_SecondCallReturned ==
    /\ buildReturns = 2
    /\ firstIndex # 0
    /\ lastIndex = firstIndex

\* the step name of the last build_or_load_index call raised
StepRaised(name) == \E k \in 1..Len(buildLog) : buildLog[k] = Step(name, TRUE)

\* the last build_or_load_index call made a step of the Chroma backend
ChromaTried ==
    \E k \in 1..Len(buildLog) :
        buildLog[k][1] \in {"chroma.load", "chroma.create", "chroma.persist"}

\* the last build_or_load_index call made a step of the FAISS backend
FaissTried ==
    \E k \in 1..Len(buildLog) : buildLog[k][1] \in {"faiss.create", "faiss.save"}

\* C11: the first build_or_load_index call of a new process, made with a
\* credential while an index directory persisted by an earlier process exists
\* and in which no backend step raises, returns an index it loaded and makes no
\* embedding call.
C11_PersistedIndexLoadedWithoutEmbedding ==
    [][(/\ processRuns >= 2
        /\ callsInProcess = 0
        /\ callsInProcess' = 1
        /\ (chromaDir \/ faissDir)
        /\ apiKey
        /\ \A k \in 1..Len(buildLog') : buildLog'[k][2] = "ok")
       => (/\ outcome' = "returned"
           /\ embedCalls' = embedCalls
           /\ \E k \in 1..Len(buildLog') : buildLog'[k][1] = "chroma.load")]_vars

\* C12: after a build_or_load_index call, if the load or create step of the
\* preferred backend (FAISS when USE_FAISS_FALLBACK=1, else Chroma) raised, the
\* other backend was tried, and the call returned if that backend's create step
\* did not raise; and the call raised a backend error only if a step of each
\* backend raised.
C12_FallsBackToOtherBackend ==
    callsInProcess > 0 =>
        /\ (useFaissEnv /\ StepRaised("faiss.create")) =>
               /\ ChromaTried
               /\ ~StepRaised("chroma.create") => outcome = "returned"
        /\ (~useFaissEnv /\ (StepRaised("chroma.load") \/ StepRaised("chroma.create"))) =>
               /\ FaissTried
               /\ ~StepRaised("faiss.create") => outcome = "returned"
        /\ error = "backend" =>
               /\ ChromaTried /\ FaissTried
               /\ StepRaised("faiss.create")
               /\ \/ StepRaised("chroma.load")
                  \/ StepRaised("chroma.create")
                  \/ StepRaised("chroma.persist")

\* C13: a build_or_load_index call made while nothing is cached and no credential
\* is available raises the configuration error, makes no embedding call, no
\* backend step (so no second attempt) and no access to the index directories,
\* and leaves the cache empty.
C13_MissingCredentialFailsFast ==
    [][(/\ callsInProcess' = callsInProcess + 1
        /\ _vectorstore = 0
        /\ ~apiKey)
       => (/\ outcome' = "raised"
           /\ error' = "config"
           /\ lastIndex' = 0
           /\ embedCalls' = embedCalls
           /\ backendOps' = backendOps
           /\ diskOps' = diskOps
           /\ buildLog' = <<>>
           /\ chromaDir' = chromaDir
           /\ faissDir' = faissDir
           /\ _vectorstore' = 0)]_vars

\* a call without a credential raised the configuration error, twice in a row
C13_ConfigErrorRaised ==
    /\ callsInProcess = 2
    /\ ~apiKey
    /\ error = "config"
    /\ _vectorstore = 0
    /\ embedCalls = 0

\* C15: a chat_with_agent call that raised to its caller raised either the
\* missing-credential configuration error or the error of the last index backend
\* failing; a call in which ingestion, the index build over the loaded chunks,
\* retrieval or generation failed otherwise has returned a response.
C15_OnlyConfigAndBackendErrorsPropagate ==
    (pc = "idle" /\ outcome = "raised") => error \in {"config", "backend"}

\* C16: among the threads that call build_or_load_index concurrently, at most
\* one gets past the cache test with the cache empty (so at most one index is
\* built or loaded), and all threads that were returned an index were returned
\* the same instance.
C16_ConcurrentCallersBuildOnce ==
    /\ Cardinality({t \in Threads : threads[t].entered}) <= 1
    /\ \A a, b \in Threads :
         (threads[a].got # 0 /\ threads[b].got # 0) => threads[a].got = threads[b].got

\* C17: the instants at which two threads running chat_with_agent concurrently
\* leave the throttle (assign _last_call_ts) are at least _min_call_interval
\* apart.
C17_ThrottleLeavesSpaced ==
    \A a, b \in Threads :
        (a # b /\ threads[a].left >= 0 /\ threads[b].left >= 0) =>
            \/ threads[a].left - threads[b].left >= _min_call_interval
            \/ threads[b].left - threads[a].left >= _min_call_interval

\* the deduplication key of a document, as the specification names it: the
\* hash of its whitespace-collapsed, lower-cased content
DedupKey(d) == _hash(_normalize(d.page_content))

\* the positions of the argument that hold the first document of their key
FirstOccurrences ==
    {i \in 1..Len(ingestIn.arg) :
        \A j \in 1..(i - 1) : DedupKey(ingestIn.arg[j]) # DedupKey(ingestIn.arg[i])}

\* the k-th position of FirstOccurrences, in increasing order
NthFirst(k) ==
    CHOOSE i \in FirstOccurrences :
        Cardinality({j \in FirstOccurrences : j < i}) = k - 1

\* C18: what dedupe_documents returned is the subsequence of its argument made
\* of the first document of each distinct key, in argument order: one document
\* per key of the argument, no key twice.
C18_DedupeKeepsFirstOccurrences ==
    (pc = "ingested" /\ ingestIn.op = "dedupe_documents") =>
        /\ Len(ingestOut) = Cardinality(FirstOccurrences)
        /\ \A k \in 1..Len(ingestOut) : ingestOut[k] = ingestIn.arg[NthFirst(k)]
        /\ \A k, l \in 1..Len(ingestOut) :
               k # l => DedupKey(ingestOut[k]) # DedupKey(ingestOut[l])
        /\ \A i \in 1..Len(ingestIn.arg) :
               \E k \in 1..Len(ingestOut) : DedupKey(ingestOut[k]) = DedupKey(ingestIn.arg[i])

\* three documents whose contents differ in case and whitespace only were
\* reduced to the first, and a document of another key was kept after it
C18_CaseAndSpaceDuplicatesDropped ==
    /\ pc = "ingested"
    /\ ingestIn.op = "dedupe_documents"
    /\ Len(ingestIn.arg) = 3
    /\ ingestIn.arg[1].page_content = <<"H","i"," "," ","T","h","e","r","e">>
    /\ ingestIn.arg[2].page_content = <<"h","i","t","h","e","r","e">>
    /\ ingestIn.arg[3].page_content = <<" ","h","i","\t","t","h","e","r","e","\n">>
    /\ ingestIn.arg[1].source # ingestIn.arg[3].source
    /\ ingestOut = <<ingestIn.arg[1], ingestIn.arg[2]>>

\* C19: every document that chunk_text, load_chat_data or load_policy_docs
\* returned has a content of at least MIN_CHUNK_CHARS characters, whatever
\* pieces the splitter returned.
C19_ChunksAtLeastMinChars ==
    (pc = "ingested" /\ ingestIn.op \in {"chunk_text", "load_chat_data", "load_policy_docs"}) =>
        \A k \in 1..Len(ingestOut) : Len(ingestOut[k].page_content) >= MIN_CHUNK_CHARS

\* the splitter returned a piece one character short of the minimum next to a
\* longer one, and chunk_text returned the longer one only
C19_ShortPieceDropped ==
    /\ pc = "ingested"
    /\ ingestIn.op = "chunk_text"
    /\ Len(splitPieces) = 2
    /\ Len(splitPieces[1]) = MIN_CHUNK_CHARS - 1
    /\ Len(splitPieces[2]) = MIN_CHUNK_CHARS + 1
    /\ ingestOut = <<[page_content |-> splitPieces[2], source |-> "chat"]>>

\* every piece the splitter returned that is long enough to be a chunk is
\* among the returned documents, up to deduplication
LongPiecesReturned ==
    \A j \in 1..Len(splitPieces) :
        Len(splitPieces[j]) >= MIN_CHUNK_CHARS =>
            \E k \in 1..Len(ingestOut) :
                DedupKey(ingestOut[k]) = _hash(_normalize(splitPieces[j]))

\* C14: load_policy_docs returns normally even when the extraction of a file
\* raises: the documents it returns come from files that were read, and the
\* chunks of every file that was read are among them.
C14_UnreadablePolicyFileSkipped ==
    (pc = "ingested" /\ ingestIn.op = "load_policy_docs") =>
        /\ outcome = "returned"
        /\ \A k \in 1..Len(ingestOut) :
               \E i \in 1..Len(ingestIn.arg) :
                   /\ ingestIn.arg[i].name = ingestOut[k].source
                   /\ ~ingestIn.arg[i].unreadable
        /\ LongPiecesReturned

\* the row has a transcript with at least one dialogue line of a named sender
HasDialogue(row) == ~row.isna /\ chat_text(row.TRANSCRIPT) # <<>>

\* C20: load_chat_data (of data_loader.py and of dataprocess.py) returns
\* normally, returns no document for a row whose transcript is missing, empty
\* or without a dialogue line (so no document of empty content, and none at
\* all when no row has dialogue), and still returns the content of the rows
\* that have dialogue.
C20_EmptyTranscriptRowsYieldNoDocument ==
    (pc = "ingested" /\ ingestIn.op \in {"load_chat_data", "dataprocess.load_chat_data"}) =>
        /\ outcome = "returned"
        /\ \A k \in 1..Len(ingestOut) : ingestOut[k].page_content # <<>>
        /\ (\A i \in 1..Len(ingestIn.arg) : ~HasDialogue(ingestIn.arg[i])) => ingestOut = <<>>
        /\ ingestIn.op = "load_chat_data" => LongPiecesReturned
        /\ ingestIn.op = "dataprocess.load_chat_data" =>
               \A i \in 1..Len(ingestIn.arg) :
                   HasDialogue(ingestIn.arg[i]) =>
                       \E k \in 1..Len(ingestOut) :
                           ingestOut[k].page_content = chat_text(ingestIn.arg[i].TRANSCRIPT)

\* C26: after a build_or_load_index call that raised, the module cache
\* _vectorstore is empty.
C26_CacheEmptyAfterRaise ==
    (callsInProcess > 0 /\ outcome = "raised") => _vectorstore = 0

\* C24: the unscored retriever is called only after the scored search, which is
\* called first; a call raises in retrieval only when the retriever itself
\* raised; and when the retriever answered in place of the scored search the
\* scores are empty and the retrieval is weak exactly when no document came back.
C24_ScoredFailureFallsBackToRetriever ==
    /\ retrieverCalls <= scoredCalls
    /\ error = "retrieval" => retrieverCalls = 1
    /\ (retrieved /\ retrieverCalls = 1) =>
           /\ scoredCalls = 1
           /\ scores = <<>>
           /\ weak_context <=> numDocs = 0

\* the scored search raised, the retriever returned a document, the retrieval was
\* not weak and the call went on to generation and returned
C24_RetrieverAnsweredAndGenerated ==
    /\ retrieved
    /\ retrieverCalls = 1
    /\ numDocs = 1
    /\ ~weak_context
    /\ genCalls = 1
    /\ outcome = "returned"

\* C25: when the scored search succeeded, the retrieval is weak exactly when it
\* returned no hit or the mean of the scores is above the threshold: the sum of
\* the scores is above the threshold times their number; at the threshold it is
\* not weak.
C25_WeakExactlyAboveThreshold ==
    (retrieved /\ retrieverCalls = 0) =>
        /\ Len(scores) = numDocs
        /\ weak_context <=>
               \/ numDocs = 0
               \/ SumSeq(scores) > WeakThreshold * Len(scores)
        /\ (numDocs > 0 /\ SumSeq(scores) = WeakThreshold * Len(scores)) => ~weak_context

\* the scored search returned hits whose mean score is the threshold, and the
\* retrieval was not weak
C25_MeanAtThresholdNotWeak ==
    /\ retrieved
    /\ retrieverCalls = 0
    /\ numDocs > 0
    /\ SumSeq(scores) = WeakThreshold * Len(scores)
    /\ ~weak_context
    /\ pc = "generate"

(***************************************************************************)
(* Properties of _build_history_block and of the history                   *)
(***************************************************************************)

\* the messages _build_history_block is to render for MAX_HISTORY_TURNS = n: the
\* last min(len(history), 2n) messages of the history, most recent first
MessagesToRender ==
    LET count == IF Len(history) < 2 * MAX_HISTORY_TURNS
                 THEN Len(history) ELSE 2 * MAX_HISTORY_TURNS
    IN  [k \in 1..count |-> history[Len(history) - k + 1]]

\* C23: at every point of a chat_with_agent call and after it, on whichever path
\* it ended, the history the caller passed holds the turns it held when passed,
\* in the same order.
C23_HistoryNeverMutated ==
    numCalls > 0 => history = HistoryOfCall(numCalls)

\* a call given a history of two turns rendered them into the prompt, generated
\* and returned
C23_HistoryRenderedAndGenerated ==
    /\ Len(history) = 2
    /\ history_block # <<>>
    /\ history_block = _build_history_block(HistoryOfCall(numCalls), MAX_HISTORY_TURNS)
    /\ path = "generated"
    /\ outcome = "returned"

\* C27: every step of an app.py session keeps the entries the chat history
\* holds, in their order, and appends at most one; an entry appended to an even
\* number of entries is the user's entry for the input submitted; an entry
\* appended to an odd number is the assistant's, appended when the handling has
\* ended, and holds the response returned or, when get_index or chat_with_agent
\* raised, the error message; and chat_with_agent is entered after the user's
\* entry was appended, with the entries before that entry as its history.
C27_TwoEntriesPerInput ==
    [][LET n == Len(chat_history)
       IN  /\ Len(chat_history') \in {n, n + 1}
           /\ SubSeq(chat_history', 1, n) = chat_history
           /\ (Len(chat_history') = n + 1 /\ n % 2 = 0) =>
                  chat_history'[n + 1] = <<AppUserLabel, query'>>
           /\ (Len(chat_history') = n + 1 /\ n % 2 = 1) =>
                  /\ pc = "idle"
                  /\ outcome \in {"returned", "raised"}
                  /\ outcome = "returned" =>
                         chat_history'[n + 1] = <<AppAgentLabel, response>>
                  /\ outcome = "raised" =>
                         chat_history'[n + 1] =
                             <<AppAgentLabel, <<"E", "r", "r", "o", "r", ":", " ", error>>>>
           /\ numCalls' = numCalls + 1 =>
                  /\ n % 2 = 1
                  /\ chat_history[n] = <<AppUserLabel, query'>>
                  /\ history' = [k \in 1..(n - 1) |-> chat_history[k]]
      ]_vars

\* a session handled two inputs: chat_with_agent answered the first, and on the
\* second it was passed the two entries of the first and raised, so that the
\* fourth entry is the error message
C27_SecondInputEndedInError ==
    /\ Len(chat_history) = 4
    /\ numCalls = 2
    /\ Len(history) = 2
    /\ history = SubSeq(chat_history, 1, 2)
    /\ chat_history[1][1] = AppUserLabel
    /\ chat_history[2] = <<AppAgentLabel, GeneralResponseOf[<<QHi, GENERAL_RESPONSE_TEMPLATES[1]>>]>>
    /\ chat_history[3] = <<AppUserLabel, QFlood>>
    /\ outcome = "raised"
    /\ chat_history[4] = <<AppAgentLabel, ErrorMessage(error)>>

\* C21: what _build_history_block returned for a history that is not empty is
\* the lines of the last min(len(history), 2 * MAX_HISTORY_TURNS) messages of the
\* history and of no other, most recent first.
C21_LastTurnsMostRecentFirst ==
    (pc = "rendered" /\ history # <<>>) =>
        history_block =
            JoinLines([k \in 1..Len(MessagesToRender) |->
                          Role(MessagesToRender[k][1]) \o <<":", " ">>
                              \o MessagesToRender[k][2]])

\* C22: for a history whose speaker labels are the two app.py stores, every
\* line _build_history_block rendered starts with the label Broker or Agent.
C22_LabelsAreBrokerOrAgent ==
    (/\ pc = "rendered"
     /\ history # <<>>
     /\ \A i \in 1..Len(history) : history[i][1] \in {AppUserLabel, AppAgentLabel}) =>
        LET trimmed == Trimmed(history, MAX_HISTORY_TURNS)
        IN  \E labels \in [1..Len(trimmed) -> {<<"B","r","o","k","e","r">>, <<"A","g","e","n","t">>}] :
                history_block =
                    JoinLines([k \in 1..Len(trimmed) |->
                                  labels[k] \o <<":", " ">>
                                      \o trimmed[Len(trimmed) - k + 1][2]])

(***************************************************************************)
(* Properties of _normalize_section_formatting                             *)
(***************************************************************************)

\* label occurs in text at position i and two whitespace characters follow it
TwoSpacesAfter(text, i, label) ==
    /\ LabelAt(text, i, label)
    /\ i + Len(label) + 1 <= Len(text)
    /\ IsSpace(text[i + Len(label)])
    /\ IsSpace(text[i + Len(label) + 1])

\* C28: normalizing what _normalize_section_formatting returned returns it
\* unchanged.
C28_NormalizeIdempotent ==
    pc = "normalized" => _normalize_section_formatting(normOutput) = normOutput

\* a text in which a label sat in mid-line was normalized, and changed by it
C28_JammedTextNormalized ==
    /\ pc = "normalized"
    /\ normInput = <<"x">> \o DecisionLabel \o <<"x">>
    /\ normOutput = <<"x", "\n">> \o DecisionLabel \o <<"x">>

\* C7: in the output of _normalize_section_formatting every occurrence of
\* Decision: and of Explanation: is at the start of a line, and no label is
\* followed by more than one whitespace character.
C7_LabelsStartLines ==
    pc = "normalized" =>
        \A i \in 1..Len(normOutput) :
            /\ (LabelAt(normOutput, i, DecisionLabel)
                  \/ LabelAt(normOutput, i, ExplanationLabel))
                   => AtLineStart(normOutput, i)
            /\ \A l \in SectionLabels : ~TwoSpacesAfter(normOutput, i, l)

====
